---- MODULE Spec2Model ----
(***************************************************************************)
(* Model of the WebsiteAnalyzer of local-files/spiders/website-analyzer.js *)
(* One analyzer object, the browsing contexts it opens, the document of    *)
(* the page it has loaded, and the collectors that read that document.     *)
(***************************************************************************)
EXTENDS Integers, Sequences, FiniteSets, TLC

\* ------------------------------------------------------------------ bounds
\* element objects a page can ever hold (html, body and the ones its scripts create)
MaxNodes == 4
\* DOM mutations the page's own scripts perform, over all page loads
MaxMutations == 2
\* analyzePage calls made on the analyzer
MaxPasses == 1
\* times a caller runs one collector directly on the same page
MaxRuns == 2
\* elements of the document whose computed styles are drawn freely
TokElements == 2

\* JavaScript null, kept apart from the -1 that Array.prototype.indexOf returns
Null == -2

Nodes == 1..MaxNodes
\* document.documentElement and document.body
Html == 1
Body == 2

VARIABLES
  pc,            \* position of the control flow inside analyzePage
  viewport,      \* the viewport argument of the running analyzePage call
  contexts,      \* contexts[i]: state of the i-th browsing context ever created
  pageLoaded,    \* TRUE while this.page shows the navigated document
  kids,          \* the document: kids[n] = children of element n, in order
  els,           \* els[n]: tag name, attributes, computed style and box of element object n
  unsupported,   \* the selectors whose evaluation throws in this browser
  mutations,     \* DOM mutations done by page scripts so far
  passes,        \* analyzePage calls started so far
  error,         \* the step whose failure is propagating, "none" if none
  analysisData,  \* this.analysisData
  harness,       \* bookkeeping of the callers that drive one collector directly
  main,          \* the process that runs main(): its position, browser, files and exit
  site,          \* the url the callers pass and the meta description of the page behind it
  blog           \* the CMS seed script: its media collection, image files and position

vars == <<pc, viewport, contexts, pageLoaded, kids, els, unsupported, mutations, passes, error,
          analysisData, harness, main, site, blog>>

\* ------------------------------------------------------------ DOM helpers
Range(s) == {s[i] : i \in 1..Len(s)}

\* the document of a freshly parsed page: <html><body></body></html>
BaseDocument == [n \in Nodes |-> IF n = Html THEN <<Body>> ELSE <<>>]

RECURSIVE Subtree(_, _), Forest(_, _)
\* elements of the subtree rooted at n, in document order
Subtree(k, n) == <<n>> \o Forest(k, k[n])
Forest(k, s) == IF s = <<>> THEN <<>> ELSE Subtree(k, Head(s)) \o Forest(k, Tail(s))

RECURSIVE SubtreeChildrenFirst(_, _), ForestChildrenFirst(_, _)
SubtreeChildrenFirst(k, n) == ForestChildrenFirst(k, k[n]) \o <<n>>
ForestChildrenFirst(k, s) ==
  IF s = <<>> THEN <<>>
  ELSE SubtreeChildrenFirst(k, Head(s)) \o ForestChildrenFirst(k, Tail(s))

\* mutant of QuerySelectorAll: the elements listed children first
QuerySelectorAllChildrenFirst(k) == SubtreeChildrenFirst(k, Html)

\* document.querySelectorAll('*')
QuerySelectorAll(k) == Subtree(k, Html)

\* el.parentElement (Null for the root element, whose parent is the document)
ParentElement(k, n) ==
  IF \E p \in Nodes : n \in Range(k[p])
  THEN CHOOSE p \in Nodes : n \in Range(k[p])
  ELSE Null

\* Array.prototype.indexOf, 0-based, -1 when absent
IndexOf(s, x) ==
  IF \E i \in 1..Len(s) : s[i] = x
  THEN (CHOOSE i \in 1..Len(s) : s[i] = x /\ \A j \in 1..(i-1) : s[j] # x) - 1
  ELSE -1

\* el.children.length
ChildCount(k, n) == Len(k[n])

RECURSIVE GetDepth(_, _, _)
\* getDepth(element, depth) of collectMetadata: deepest level below element
GetDepth(k, n, depth) ==
  LET below == {GetDepth(k, k[n][i], depth + 1) : i \in 1..Len(k[n])}
  IN  IF below = {} THEN depth
      ELSE CHOOSE m \in below : \A o \in below : o <= m

RemoveAt(s, i) == SubSeq(s, 1, i - 1) \o SubSeq(s, i + 1, Len(s))

\* ---------------------------------------------------------------- strings
\* text the code takes apart is a sequence of characters
EmptyStr == <<>>
\* JavaScript null where a string could stand: no sequence of characters equals it
NullStr == <<"null">>
TagHtml == <<"h", "t", "m", "l">>
TagBody == <<"b", "o", "d", "y">>
TagButton == <<"b", "u", "t", "t", "o", "n">>
TagDiv == <<"d", "i", "v">>
TagCard == <<"c", "a", "r", "d">>
TagForm == <<"f", "o", "r", "m">>
TagNav == <<"n", "a", "v">>
TagLi == <<"l", "i">>
TagHeader == <<"h", "e", "a", "d", "e", "r">>
TagMain == <<"m", "a", "i", "n">>
TagAside == <<"a", "s", "i", "d", "e">>
TagFooter == <<"f", "o", "o", "t", "e", "r">>
RoleBanner == <<"b", "a", "n", "n", "e", "r">>
RoleNavigation == <<"n", "a", "v", "i", "g", "a", "t", "i", "o", "n">>
RoleMain == <<"m", "a", "i", "n">>
RoleComplementary == <<"c", "o", "m", "p", "l", "e", "m", "e", "n", "t", "a", "r", "y">>
RoleContentinfo == <<"c", "o", "n", "t", "e", "n", "t", "i", "n", "f", "o">>
ClsButton == <<"b", "u", "t", "t", "o", "n">>
ClsCard == <<"c", "a", "r", "d">>
ClsFormItem == <<"f", "o", "r", "m", " ", "i", "t", "e", "m">>
ClsModalHeader == <<"m", "o", "d", "a", "l", "-", "d", "i", "a", "l", "o", "g", " ",
                    "h", "e", "a", "d", "e", "r">>
ClsBtn == <<"b", "t", "n">>
ClsBtnSecondary == <<"b", "t", "n", " ", "s", "e", "c", "o", "n", "d", "a", "r", "y">>

StrNone == <<"n", "o", "n", "e">>
StrGradient == <<"g", "r", "a", "d", "i", "e", "n", "t">>
ImgGradient == <<"l", "i", "n", "e", "a", "r", "-", "g", "r", "a", "d", "i", "e", "n", "t", "(",
                 "r", "e", "d", ",", " ", "b", "l", "u", "e", ")">>
ImgUrl == <<"u", "r", "l", "(", "\"", "a", ".", "p", "n", "g", "\"", ")">>
ImgUrlGradient == ImgUrl \o <<",", " ">> \o ImgGradient

\* String.prototype.includes
Includes(s, needle) ==
  \E i \in 1..(Len(s) - Len(needle) + 1) : SubSeq(s, i, i + Len(needle) - 1) = needle

RECURSIVE Split(_, _)
\* String.prototype.split(sep) for a one-character separator
Split(s, sep) ==
  IF \E i \in 1..Len(s) : s[i] = sep
  THEN LET i == CHOOSE i \in 1..Len(s) : s[i] = sep /\ \A j \in 1..(i-1) : s[j] # sep
       IN  <<SubSeq(s, 1, i - 1)>> \o Split(SubSeq(s, i + 1, Len(s)), sep)
  ELSE <<s>>

\* Array.prototype.filter(c => c) on a list of strings: drop the empty ones
FilterNonEmpty(l) == SelectSeq(l, LAMBDA c : c # EmptyStr)

\* el.className ? el.className.split(' ').filter(c => c) : []
ClassList(className) ==
  IF className # EmptyStr THEN FilterNonEmpty(Split(className, " ")) ELSE <<>>

\* ------------------------------------------------------------- the page
\* getComputedStyle(el) of an unstyled element, the properties the collectors read
DefaultStyle ==
  [color |-> "rgb(0, 0, 0)", backgroundColor |-> "rgba(0, 0, 0, 0)",
   borderColor |-> "rgb(0, 0, 0)", fontFamily |-> "Arial", fontWeight |-> "400",
   marginTop |-> "0px", marginRight |-> "0px", marginBottom |-> "0px", marginLeft |-> "0px",
   paddingTop |-> "0px", paddingRight |-> "0px", paddingBottom |-> "0px",
   paddingLeft |-> "0px", borderRadius |-> "0px", boxShadow |-> "none",
   backgroundImage |-> StrNone, display |-> "block", position |-> "static"]

\* the style sheet of the sample page gives its buttons a colour, padding and a shadow
ButtonStyle ==
  [DefaultStyle EXCEPT !.backgroundColor = "rgb(255, 0, 0)", !.paddingTop = "8px",
                       !.paddingBottom = "8px", !.borderRadius = "4px",
                       !.boxShadow = "rgba(0, 0, 0, 0.5) 0px 2px 4px 0px"]

\* the page analysed by the passes: an html element whose class attribute a
\* script has rewritten, a body with a line break in it, and two buttons and
\* a header that its scripts attach; the first button has an id and a
\* landmark role; html, body and the first button have a background image
SamplePage ==
  [n \in Nodes |->
     IF n = Html THEN [tagName |-> TagHtml, id |-> EmptyStr, className |-> <<" ", "j", "s">>,
                       role |-> EmptyStr, text |-> EmptyStr,
                       computed |-> [DefaultStyle EXCEPT !.backgroundImage = ImgUrl],
                       rect |-> [x |-> 0, y |-> 0, width |-> 1920, height |-> 1080]]
     ELSE IF n = Body THEN [tagName |-> TagBody, id |-> EmptyStr, className |-> EmptyStr,
                            role |-> EmptyStr, text |-> <<"\n">>,
                            computed |-> [DefaultStyle EXCEPT !.backgroundImage = ImgUrlGradient],
                            rect |-> [x |-> 0, y |-> 0, width |-> 1920, height |-> 1080]]
     ELSE IF n = 3 THEN [tagName |-> TagButton, id |-> <<"c", "t", "a">>, className |-> ClsBtn,
                         role |-> RoleNavigation, text |-> <<"B", "u", "y">>,
                         computed |-> [ButtonStyle EXCEPT !.backgroundImage = ImgUrl],
                         rect |-> [x |-> 8, y |-> 8, width |-> 80, height |-> 32]]
     ELSE IF n = 4 THEN [tagName |-> TagButton, id |-> EmptyStr, className |-> ClsBtnSecondary,
                         role |-> EmptyStr, text |-> <<" ", "O", "K", " ">>,
                         computed |-> [ButtonStyle EXCEPT !.backgroundColor = "rgb(0, 0, 255)",
                                                          !.backgroundImage = ImgGradient],
                         rect |-> [x |-> 96, y |-> 8, width |-> 80, height |-> 32]]
     ELSE [tagName |-> TagHeader, id |-> EmptyStr, className |-> EmptyStr,
           role |-> EmptyStr, text |-> EmptyStr, computed |-> DefaultStyle,
           rect |-> [x |-> 0, y |-> 48, width |-> 1920, height |-> 64]]]

Attached(k) == Range(QuerySelectorAll(k))

\* ------------------------------------------------------------ collectors
\* mutant of ParentIndexOf: the parent looked up without the null test
ParentIndexOfUnguarded(k, el) == IndexOf(QuerySelectorAll(k), ParentElement(k, el))

\* el.parentElement ? Array.from(document.querySelectorAll('*')).indexOf(el.parentElement) : null
ParentIndexOf(k, el) ==
  IF ParentElement(k, el) # Null
  THEN IndexOf(QuerySelectorAll(k), ParentElement(k, el))
  ELSE Null

RECURSIVE TextContent(_, _, _), TextOfAll(_, _, _)
\* el.textContent: the element's own text followed by the text of its children
TextContent(k, e, n) == e[n].text \o TextOfAll(k, e, k[n])
TextOfAll(k, e, s) ==
  IF s = <<>> THEN <<>> ELSE TextContent(k, e, Head(s)) \o TextOfAll(k, e, Tail(s))

RECURSIVE Trim(_)
\* String.prototype.trim
Trim(s) ==
  IF s = <<>> THEN s
  ELSE IF Head(s) \in {" ", "\n", "\t"} THEN Trim(Tail(s))
  ELSE IF s[Len(s)] \in {" ", "\n", "\t"} THEN Trim(SubSeq(s, 1, Len(s) - 1))
  ELSE s

\* the length textContent is cut to
TextLimit == 200

RECURSIVE Join(_, _)
\* Array.prototype.join
Join(l, sep) ==
  IF l = <<>> THEN <<>>
  ELSE IF Len(l) = 1 THEN l[1]
  ELSE l[1] \o sep \o Join(Tail(l), sep)

RECURSIVE PathOf(_, _, _)
\* the path array of generateSelector after its while loop has walked from
\* element up to the root: one step per element, the root's first
PathOf(k, e, element) ==
  IF element = Null THEN <<>>
  ELSE LET selector ==
             e[element].tagName \o
               (IF e[element].className # EmptyStr
                THEN <<".">> \o Join(FilterNonEmpty(Split(e[element].className, " ")), <<".">>)
                ELSE <<>>)
       IN  Append(PathOf(k, e, ParentElement(k, element)), selector)

\* generateSelector(element)
GenerateSelector(k, e, element) ==
  IF e[element].id # EmptyStr THEN <<"#">> \o e[element].id
  ELSE IF element = Body THEN TagBody
  ELSE Join(PathOf(k, e, element), <<" ", ">", " ">>)

\* the page.evaluate callback of collectElementData
ElementDataEval(k, e) ==
  LET allElements == QuerySelectorAll(k)
  IN  [i \in 1..Len(allElements) |->
         LET el == allElements[i]
         IN  [index |-> i - 1,
              tagName |-> e[el].tagName,
              id |-> IF e[el].id # EmptyStr THEN e[el].id ELSE NullStr,
              classes |-> ClassList(e[el].className),
              textContent |->
                IF TextContent(k, e, el) # EmptyStr
                THEN LET trimmed == Trim(TextContent(k, e, el))
                     IN  SubSeq(trimmed, 1,
                                IF Len(trimmed) < TextLimit THEN Len(trimmed) ELSE TextLimit)
                ELSE NullStr,
              selector |-> GenerateSelector(k, e, el),
              parentIndex |-> ParentIndexOf(k, el),
              childCount |-> ChildCount(k, el)]]

\* ----------------------------------------------------------- design tokens
\* a JavaScript Set of strings, kept as the sequence of its members in
\* insertion order (the order Array.from gives back)
EmptySet == <<>>

\* mutant of SetAdd: the value stored without looking for an equal member
SetAddAlways(set, v) == Append(set, v)

\* Set.prototype.add
SetAdd(set, v) == IF v \in Range(set) THEN set ELSE Append(set, v)

\* mutant of AddColor: a transparent colour stored like any other
AddColorUnfiltered(set, c) == IF c # "" THEN SetAdd(set, c) ELSE set

\* if (color && color !== 'rgba(0, 0, 0, 0)') tokens.colors.add(color)
AddColor(set, c) == IF c # "" /\ c # "rgba(0, 0, 0, 0)" THEN SetAdd(set, c) ELSE set

\* val && val !== '0px' && tokens.spacing.add(val)
AddSpacing(set, val) == IF val # "" /\ val # "0px" THEN SetAdd(set, val) ELSE set

RECURSIVE AddSpacings(_, _)
\* values.forEach(val => val && val !== '0px' && tokens.spacing.add(val))
AddSpacings(set, values) ==
  IF values = <<>> THEN set ELSE AddSpacings(AddSpacing(set, Head(values)), Tail(values))

\* the body of elements.forEach in collectDesignTokens, for one element
VisitTokens(tokens, computed) ==
  LET marginValues == <<computed.marginTop, computed.marginRight,
                        computed.marginBottom, computed.marginLeft>>
      paddingValues == <<computed.paddingTop, computed.paddingRight,
                         computed.paddingBottom, computed.paddingLeft>>
  IN  [colors |-> AddColor(AddColor(AddColor(tokens.colors, computed.color),
                                    computed.backgroundColor), computed.borderColor),
       fonts |-> IF computed.fontFamily # ""
                 THEN SetAdd(tokens.fonts, <<computed.fontFamily, " ", computed.fontWeight>>)
                 ELSE tokens.fonts,
       spacing |-> AddSpacings(AddSpacings(tokens.spacing, marginValues), paddingValues),
       borderRadius |-> IF computed.borderRadius # "" /\ computed.borderRadius # "0px"
                        THEN SetAdd(tokens.borderRadius, computed.borderRadius)
                        ELSE tokens.borderRadius,
       boxShadows |-> IF computed.boxShadow # "" /\ computed.boxShadow # "none"
                      THEN SetAdd(tokens.boxShadows, computed.boxShadow)
                      ELSE tokens.boxShadows,
       gradients |-> IF computed.backgroundImage # EmptyStr
                        /\ Includes(computed.backgroundImage, StrGradient)
                     THEN SetAdd(tokens.gradients, computed.backgroundImage)
                     ELSE tokens.gradients]

RECURSIVE VisitAllTokens(_, _, _)
\* elements.forEach(el => ...) of collectDesignTokens
VisitAllTokens(tokens, elements, e) ==
  IF elements = <<>> THEN tokens
  ELSE VisitAllTokens(VisitTokens(tokens, e[Head(elements)].computed), Tail(elements), e)

EmptyTokens ==
  [colors |-> EmptySet, fonts |-> EmptySet, spacing |-> EmptySet,
   borderRadius |-> EmptySet, boxShadows |-> EmptySet, gradients |-> EmptySet]

\* the page.evaluate callback of collectDesignTokens
DesignTokensEval(k, e) == VisitAllTokens(EmptyTokens, QuerySelectorAll(k), e)

\* -------------------------------------------------------- component patterns
\* the text of the selector [class*="w"]
AttrClassContains(w) ==
  <<"[", "c", "l", "a", "s", "s", "*", "=", "\"">> \o w \o <<"\"", "]">>

SelButton == <<"b", "u", "t", "t", "o", "n">>
SelClassButton == AttrClassContains(<<"b", "u", "t", "t", "o", "n">>)
SelClassBtn == AttrClassContains(<<"b", "t", "n">>)
SelCard == <<"c", "a", "r", "d">>
SelClassCard == AttrClassContains(<<"c", "a", "r", "d">>)
SelClassNav == AttrClassContains(<<"n", "a", "v">>)
SelNavLi == <<"n", "a", "v", " ", "l", "i">>
SelClassModal == AttrClassContains(<<"m", "o", "d", "a", "l">>)
SelClassDialog == AttrClassContains(<<"d", "i", "a", "l", "o", "g">>)
SelClassForm == AttrClassContains(<<"f", "o", "r", "m">>)
SelForm == <<"f", "o", "r", "m">>
SelClassHeader == AttrClassContains(<<"h", "e", "a", "d", "e", "r">>)
SelClassFooter == AttrClassContains(<<"f", "o", "o", "t", "e", "r">>)
SelClassItem == AttrClassContains(<<"i", "t", "e", "m">>)
SelClassComponent == AttrClassContains(<<"c", "o", "m", "p", "o", "n", "e", "n", "t">>)

\* const componentSelectors = [...]
ComponentSelectors ==
  <<SelButton, SelClassButton, SelClassBtn,
    SelCard, SelClassCard,
    SelClassNav, SelNavLi,
    SelClassModal, SelClassDialog,
    SelClassForm, SelForm,
    SelClassHeader, SelClassFooter,
    SelClassItem, SelClassComponent>>

\* String.prototype.replace(/[...]/g, ''): every character of the class dropped
RemoveChars(s, class) == SelectSeq(s, LAMBDA c : c \notin class)

\* String.prototype.replace(/sub/, ''): the first occurrence of sub dropped
RemoveFirst(s, sub) ==
  IF Includes(s, sub)
  THEN LET i == CHOOSE i \in 1..Len(s) :
                  /\ SubSeq(s, i, i + Len(sub) - 1) = sub
                  /\ \A j \in 1..(i-1) : SubSeq(s, j, j + Len(sub) - 1) # sub
       IN  SubSeq(s, 1, i - 1) \o SubSeq(s, i + Len(sub), Len(s))
  ELSE s

\* selector.replace(/[\[\]"*=]/g, '').replace(/class/, '')
ComponentName(selector) ==
  RemoveFirst(RemoveChars(selector, {"[", "]", "\"", "*", "="}),
              <<"c", "l", "a", "s", "s">>)

RECURSIVE Ancestors(_, _)
\* the elements above n, nearest first
Ancestors(k, n) ==
  IF ParentElement(k, n) = Null THEN <<>>
  ELSE <<ParentElement(k, n)>> \o Ancestors(k, ParentElement(k, n))

\* whether element n matches a selector of the three forms the catalog uses:
\* [class*="w"], a descendant pair 'a b', and a type selector
SelectorMatches(selector, k, e, n) ==
  IF Head(selector) = "["
  THEN Includes(e[n].className, SubSeq(selector, 10, Len(selector) - 2))
  ELSE IF Includes(selector, <<" ">>)
  THEN /\ e[n].tagName = Split(selector, " ")[2]
       /\ \E a \in Range(Ancestors(k, n)) : e[a].tagName = Split(selector, " ")[1]
  ELSE e[n].tagName = selector

\* document.querySelectorAll(selector), when it does not throw
QuerySelectorAllMatching(selector, k, e) ==
  SelectSeq(QuerySelectorAll(k), LAMBDA n : SelectorMatches(selector, k, e, n))

\* mutant of MapSet: the value of a known key is kept
MapSetKeepFirst(map, key, value) ==
  IF \E i \in 1..Len(map) : map[i].key = key
  THEN map
  ELSE Append(map, [key |-> key, value |-> value])

\* Map.prototype.set: a new key goes last, a known key keeps its place
MapSet(map, key, value) ==
  IF \E i \in 1..Len(map) : map[i].key = key
  THEN [i \in 1..Len(map) |-> IF map[i].key = key THEN [key |-> key, value |-> value]
                              ELSE map[i]]
  ELSE Append(map, [key |-> key, value |-> value])

\* Array.from(elements).map((el, index) => ({...}))
Variations(elements, e) ==
  [i \in 1..Len(elements) |->
     LET el == e[elements[i]]
     IN  [index |-> i - 1,
          classes |-> IF el.className # EmptyStr THEN Split(el.className, " ") ELSE <<>>,
          backgroundColor |-> el.computed.backgroundColor,
          color |-> el.computed.color]]

\* mutant of IsRepeated: a single match counted as a pattern
IsRepeatedFromOne(elements) == Len(elements) > 0

\* if (elements.length > 1)
IsRepeated(elements) == Len(elements) > 1

\* the try block of one catalog entry: the components after it, and whether
\* it threw
TrySelector(components, selector, k, e, bad) ==
  IF selector \in bad THEN [components |-> components, thrown |-> TRUE]
  ELSE LET elements == QuerySelectorAllMatching(selector, k, e)
       IN  [components |->
              IF IsRepeated(elements)
              THEN MapSet(components, ComponentName(selector),
                          [selector |-> selector, count |-> Len(elements),
                           variations |-> Variations(elements, e)])
              ELSE components,
            thrown |-> FALSE]

\* mutant of CatchSelectorError: the error of an entry not caught
RethrowSelectorError(state) == state

\* catch (e) { /* Skip invalid selectors */ }
CatchSelectorError(state) == [state EXCEPT !.thrown = FALSE]

RECURSIVE VisitSelectors(_, _, _, _, _)
\* componentSelectors.forEach(selector => { try {...} catch (e) {} }): an
\* error that leaves the callback ends the loop
VisitSelectors(state, selectors, k, e, bad) ==
  IF selectors = <<>> \/ state.thrown THEN state
  ELSE VisitSelectors(
         CatchSelectorError(TrySelector(state.components, Head(selectors), k, e, bad)),
         Tail(selectors), k, e, bad)

\* Array.from(components.entries()).map(([name, data]) => ({ name, ...data }))
PatternList(components) ==
  [i \in 1..Len(components) |->
     [name |-> components[i].key,
      selector |-> components[i].value.selector,
      count |-> components[i].value.count,
      variations |-> components[i].value.variations]]

\* the page.evaluate callback of identifyComponentPatterns over a catalog:
\* the patterns it returns, and whether it threw instead
PatternsOver(selectors, k, e, bad) ==
  LET state == VisitSelectors([components |-> <<>>, thrown |-> FALSE], selectors, k, e, bad)
  IN  [patterns |-> PatternList(state.components), thrown |-> state.thrown]

ComponentPatternsEval(k, e, bad) == PatternsOver(ComponentSelectors, k, e, bad)

\* --------------------------------------------------------------------- layout
\* document.querySelector(tag)
QuerySelectorTag(tag, k, e) ==
  LET found == SelectSeq(QuerySelectorAll(k), LAMBDA n : e[n].tagName = tag)
  IN  IF found = <<>> THEN Null ELSE Head(found)

\* document.querySelector('[role="r"]')
QuerySelectorRole(r, k, e) ==
  LET found == SelectSeq(QuerySelectorAll(k), LAMBDA n : e[n].role = r)
  IN  IF found = <<>> THEN Null ELSE Head(found)

\* a || b on element references
OrElse(a, b) == IF a # Null THEN a ELSE b

\* const sections = { header: ..., nav: ..., main: ..., aside: ..., footer: ... }
Sections(k, e) ==
  [header |-> OrElse(QuerySelectorTag(TagHeader, k, e), QuerySelectorRole(RoleBanner, k, e)),
   nav |-> OrElse(QuerySelectorTag(TagNav, k, e), QuerySelectorRole(RoleNavigation, k, e)),
   main |-> OrElse(QuerySelectorTag(TagMain, k, e), QuerySelectorRole(RoleMain, k, e)),
   aside |-> OrElse(QuerySelectorTag(TagAside, k, e),
                    QuerySelectorRole(RoleComplementary, k, e)),
   footer |-> OrElse(QuerySelectorTag(TagFooter, k, e),
                     QuerySelectorRole(RoleContentinfo, k, e))]

\* a string stored as the value of an object property
JsString(v) == [str |-> v]

\* an object literal { k1: v1, k2: v2, ... }: one property per key, and of two
\* definitions of a key the later one gives the value
ObjectLiteral(props) ==
  [key \in {props[i][1] : i \in 1..Len(props)} |->
     props[CHOOSE i \in 1..Len(props) :
             /\ props[i][1] = key
             /\ \A j \in (i+1)..Len(props) : props[j][1] # key][2]]

\* sectionInfo[key] = { exists: true, dimensions: ..., position: ..., display: ...,
\* position: ... } for an element that was found
SectionInfo(rect, computed) ==
  ObjectLiteral(<<
    <<"exists", TRUE>>,
    <<"dimensions", [width |-> rect.width, height |-> rect.height]>>,
    <<"position", [x |-> rect.x, y |-> rect.y]>>,
    <<"display", JsString(computed.display)>>,
    <<"position", JsString(computed.position)>> >>)

\* the page.evaluate callback of collectLayoutStructure; the scroll sizes and
\* the grid and flex counters are numbers the model leaves out
LayoutEval(k, e) ==
  [sections |->
     [key \in DOMAIN Sections(k, e) |->
        LET element == Sections(k, e)[key]
        IN  IF element # Null THEN SectionInfo(e[element].rect, e[element].computed)
            ELSE [exists |-> FALSE]]]

\* bgImage.match(/url\(["']?([^"')]+)["']?\)/): the first capture of the
\* leftmost match, null if the pattern matches nowhere
MatchUrl(bgImage) ==
  LET quotes == {"\"", "'"}
      Start(i) == IF i + 4 <= Len(bgImage) /\ bgImage[i + 4] \in quotes THEN i + 5 ELSE i + 4
      End(i) == CHOOSE j \in (Start(i) - 1)..Len(bgImage) :
                  /\ \A m \in Start(i)..j : bgImage[m] \notin quotes \cup {")"}
                  /\ j = Len(bgImage) \/ bgImage[j + 1] \in quotes \cup {")"}
      Matches(i) ==
        /\ SubSeq(bgImage, i, i + 3) = <<"u", "r", "l", "(">>
        /\ End(i) >= Start(i)
        /\ \/ End(i) < Len(bgImage) /\ bgImage[End(i) + 1] = ")"
           \/ /\ End(i) + 1 < Len(bgImage)
              /\ bgImage[End(i) + 1] \in quotes
              /\ bgImage[End(i) + 2] = ")"
      found == {i \in 1..(Len(bgImage) - 3) : Matches(i)}
  IN  IF found = {} THEN NullStr
      ELSE LET i == CHOOSE i \in found : \A m \in found : i <= m
           IN  SubSeq(bgImage, Start(i), End(i))

\* the backgroundImages list built by the page.evaluate callback of collectAssets
BackgroundImagesEval(k, e) ==
  LET hits == SelectSeq(QuerySelectorAll(k),
                        LAMBDA el : /\ e[el].computed.backgroundImage # EmptyStr
                                    /\ e[el].computed.backgroundImage # StrNone
                                    /\ Includes(e[el].computed.backgroundImage,
                                                <<"u", "r", "l", "(">>)
                                    /\ MatchUrl(e[el].computed.backgroundImage) # NullStr)
  IN  [n \in 1..Len(hits) |->
         LET el == hits[n]
         IN  [url |-> MatchUrl(e[el].computed.backgroundImage),
              element |-> e[el].tagName,
              selector |-> IF e[el].id # EmptyStr THEN <<"#">> \o e[el].id
                           ELSE IF e[el].className # EmptyStr
                                THEN <<".">> \o Split(e[el].className, " ")[1]
                                ELSE e[el].tagName]]

\* the first page.evaluate callback of collectMetadata
ElementCountEval(k) == Len(QuerySelectorAll(k))

\* the second page.evaluate callback of collectMetadata
DomDepthEval(k) == GetDepth(k, Body, 0)

\* -------------------------------------------------------------- analyzer
Viewports == {[width |-> 1920, height |-> 1080], [width |-> 375, height |-> 667]}
\* what performance.getEntriesByType reports: opaque to the analyzer
PerformanceEntries == [resourceCount |-> 0]

\* mutant of Collectors: the elements are collected before the design tokens
CollectorsElementsFirst ==
  <<"collectMetadata", "collectPerformanceMetrics", "collectElementData",
    "collectDesignTokens", "collectLayoutStructure", "collectAssets",
    "identifyComponentPatterns">>

\* the collector calls of the try block of analyzePage, in source order
Collectors == <<"collectMetadata", "collectPerformanceMetrics", "collectDesignTokens",
                "collectElementData", "collectLayoutStructure", "collectAssets",
                "identifyComponentPatterns">>

\* the statement that follows collector c in the try block of analyzePage
AfterCollector(c) ==
  IF c = Collectors[Len(Collectors)] THEN "finally"
  ELSE Collectors[IndexOf(Collectors, c) + 2]

\* this.analysisData as the constructor builds it
NewAnalysisData ==
  [metadata |-> <<>>, designTokens |-> EmptyTokens, layout |-> <<>>, elements |-> <<>>,
   assets |-> [backgroundImages |-> <<>>, fonts |-> <<>>], componentPatterns |-> <<>>,
   responsive |-> <<>>]

NoHarness ==
  [tokenRuns |-> <<>>, patternRuns |-> 0, layoutRuns |-> 0, saveRuns |-> 0,
   saveFilename |-> NullStr]

\* the url given on the command line or by a caller, and the content of the
\* meta description of the page it names (null: the page has no such element)
SampleSite ==
  [url |-> <<"h", "t", "t", "p", ":", "/", "/", "a", ".", "i", "o", "/">>, description |-> NullStr]

\* urls with a plain host name, a host name with hyphens and a path, and an
\* IPv6 address with a port, each with and without a meta description
Sites ==
  {[url |-> u, description |-> d] :
     u \in {SampleSite.url,
            <<"h", "t", "t", "p", "s", ":", "/", "/", "m", "y", "-", "s", "i", "t", "e", ".", "i", "o", "/", "p">>,
            <<"h", "t", "t", "p", ":", "/", "/", "[", ":", ":", "1", "]", ":", "8", "0", "8", "0", "/">>},
     d \in {NullStr, <<"D", "e", "m", "o">>}}

\* the seed script of the CMS is not running
NoBlog == [pc |-> "off"]

\* no process runs main(): the analyzer is driven by other callers
NoMain ==
  [pc |-> "off", browser |-> "none", i |-> 0, responsiveData |-> <<>>, navigations |-> <<>>,
   dirs |-> {}, files |-> <<>>, stderr |-> <<>>, exitCode |-> Null]

\* constructor
Init ==
  /\ pc = "idle"
  /\ viewport = Null
  /\ contexts = <<>>
  /\ pageLoaded = FALSE
  /\ kids = BaseDocument
  /\ els = SamplePage
  /\ unsupported = {}
  /\ mutations = 0
  /\ passes = 0
  /\ error = "none"
  /\ analysisData = NewAnalysisData
  /\ harness = NoHarness
  /\ main = NoMain
  /\ site = SampleSite
  /\ blog = NoBlog

\* a caller invokes analyzePage(url, viewport)
AnalyzePage ==
  /\ pc \in {"idle", "returned", "thrown"}
  /\ passes < MaxPasses
  /\ \E v \in Viewports : viewport' = v
  /\ passes' = passes + 1
  /\ error' = "none"
  /\ pc' = "newContext"
  /\ UNCHANGED <<contexts, pageLoaded, kids, els, unsupported, mutations, analysisData, harness,
                 main, site, blog>>

\* const context = await this.browser.newContext({ viewport })
NewContext ==
  /\ pc = "newContext"
  /\ \/ /\ contexts' = Append(contexts, "open")
        /\ pc' = "newPage"
        /\ UNCHANGED error
     \/ /\ error' = "newContext"
        /\ pc' = "thrown"
        /\ UNCHANGED contexts
  /\ UNCHANGED <<viewport, pageLoaded, kids, els, unsupported, mutations, passes, analysisData,
                 harness, main, site, blog>>

\* this.page = await context.newPage()
NewPage ==
  /\ pc = "newPage"
  /\ \/ /\ pc' = "route"
        /\ UNCHANGED error
     \/ /\ error' = "newPage"
        /\ pc' = "thrown"
  /\ pageLoaded' = FALSE
  /\ UNCHANGED <<viewport, contexts, kids, els, unsupported, mutations, passes, analysisData,
                 harness, main, site, blog>>

\* await this.page.route('**/*', route => route.continue())
Route ==
  /\ pc = "route"
  /\ \/ /\ pc' = "goto"
        /\ UNCHANGED error
     \/ /\ error' = "route"
        /\ pc' = "thrown"
  /\ UNCHANGED <<viewport, contexts, pageLoaded, kids, els, unsupported, mutations, passes,
                 analysisData, harness, main, site, blog>>

\* await this.page.goto(url, { waitUntil: 'domcontentloaded', timeout: 60000 })
Goto ==
  /\ pc = "goto"
  /\ \/ /\ pageLoaded' = TRUE
        /\ kids' = BaseDocument
        /\ pc' = Collectors[1]
        /\ UNCHANGED error
     \/ /\ \E e \in {"TimeoutError", "Error"} : error' = e
        /\ pc' = "finally"
        /\ UNCHANGED <<pageLoaded, kids, main, site, blog>>
  /\ UNCHANGED <<viewport, contexts, els, unsupported, mutations, passes, analysisData, harness,
                 main, site, blog>>

\* the page's own scripts keep running after DOMContentLoaded: they attach the
\* next element they have ready as first or last child of an element of the
\* document, or detach an element (with its subtree) from the document
PageScript ==
  /\ pageLoaded
  /\ mutations < MaxMutations
  /\ mutations' = mutations + 1
  /\ \/ \E n \in Nodes \ Attached(kids), p \in Attached(kids), first \in BOOLEAN :
          /\ ParentElement(kids, n) = Null
          /\ \A m \in Nodes \ Attached(kids) : ParentElement(kids, m) = Null => n <= m
          /\ kids' = [kids EXCEPT ![p] = IF first THEN <<n>> \o @ ELSE Append(@, n)]
     \/ \E n \in Attached(kids) \ {Html, Body} :
          LET p == ParentElement(kids, n)
          IN  kids' = [kids EXCEPT ![p] = RemoveAt(@, IndexOf(@, n) + 1)]
  /\ UNCHANGED <<pc, viewport, contexts, pageLoaded, els, unsupported, passes, error,
                 analysisData, harness, main, site, blog>>

\* mutant of CatchNull: the rejection of page.$eval is not caught
CatchNullMissing(result) == result

\* promise.catch(() => null)
CatchNull(result) == IF result.thrown THEN [thrown |-> FALSE, value |-> NullStr] ELSE result

\* collectMetadata(url, viewport, loadTime); timestamp, loadTime, userAgent and
\* title are opaque values of the environment and are left out of the record.
\* page.$eval rejects when no element matches meta[name="description"]
CollectMetadata ==
  /\ pc = "collectMetadata"
  /\ LET description ==
           CatchNull(IF site.description = NullStr
                     THEN [thrown |-> TRUE, value |-> NullStr]
                     ELSE [thrown |-> FALSE, value |-> site.description])
     IN  IF description.thrown
         THEN /\ error' = "no element matches selector"
              /\ pc' = "finally"
              /\ UNCHANGED analysisData
         ELSE /\ analysisData' = [analysisData EXCEPT !.metadata =
                   [url |-> site.url,
                    viewport |-> viewport,
                    elementCount |-> ElementCountEval(kids),
                    domDepth |-> DomDepthEval(kids),
                    description |-> description.value]]
              /\ pc' = AfterCollector(pc)
              /\ UNCHANGED error
  /\ UNCHANGED <<viewport, contexts, pageLoaded, kids, els, unsupported, mutations, passes,
                 harness, main, site, blog>>

\* collectPerformanceMetrics()
CollectPerformanceMetrics ==
  /\ pc = "collectPerformanceMetrics"
  /\ analysisData' = [analysisData EXCEPT !.metadata =
       ("performance" :> PerformanceEntries) @@ @]
  /\ pc' = AfterCollector(pc)
  /\ UNCHANGED <<viewport, contexts, pageLoaded, kids, els, unsupported, mutations, passes,
                 error, harness, main, site, blog>>

\* collectElementData()
CollectElementData ==
  /\ pc = "collectElementData"
  /\ analysisData' = [analysisData EXCEPT !.elements = ElementDataEval(kids, els)]
  /\ pc' = AfterCollector(pc)
  /\ UNCHANGED <<viewport, contexts, pageLoaded, kids, els, unsupported, mutations, passes,
                 error, harness, main, site, blog>>

\* collectDesignTokens()
CollectDesignTokens ==
  /\ pc = "collectDesignTokens"
  /\ analysisData' = [analysisData EXCEPT !.designTokens = DesignTokensEval(kids, els)]
  /\ pc' = AfterCollector(pc)
  /\ UNCHANGED <<viewport, contexts, pageLoaded, kids, els, unsupported, mutations, passes,
                 error, harness, main, site, blog>>

\* collectLayoutStructure()
CollectLayoutStructure ==
  /\ pc = "collectLayoutStructure"
  /\ analysisData' = [analysisData EXCEPT !.layout = LayoutEval(kids, els)]
  /\ pc' = AfterCollector(pc)
  /\ UNCHANGED <<viewport, contexts, pageLoaded, kids, els, unsupported, mutations, passes,
                 error, harness, main, site, blog>>

\* collectAssets(); the img, link and script inventories are left out
CollectAssets ==
  /\ pc = "collectAssets"
  /\ analysisData' = [analysisData EXCEPT !.assets =
       [backgroundImages |-> BackgroundImagesEval(kids, els), fonts |-> <<>>]]
  /\ pc' = AfterCollector(pc)
  /\ UNCHANGED <<viewport, contexts, pageLoaded, kids, els, unsupported, mutations, passes,
                 error, harness, main, site, blog>>

\* identifyComponentPatterns()
IdentifyComponentPatterns ==
  /\ pc = "identifyComponentPatterns"
  /\ LET result == ComponentPatternsEval(kids, els, unsupported)
     IN  IF result.thrown
         THEN /\ error' = pc
              /\ pc' = "finally"
              /\ UNCHANGED analysisData
         ELSE /\ analysisData' = [analysisData EXCEPT !.componentPatterns = result.patterns]
              /\ pc' = AfterCollector(pc)
              /\ UNCHANGED error
  /\ UNCHANGED <<viewport, contexts, pageLoaded, kids, els, unsupported, mutations, passes,
                 harness, main, site, blog>>

\* a page.evaluate of the running collector rejects (the page crashed or its
\* execution context was destroyed): the collector stores nothing
CollectorThrows ==
  /\ pc \in Range(Collectors)
  /\ error' = pc
  /\ pc' = "finally"
  /\ UNCHANGED <<viewport, contexts, pageLoaded, kids, els, unsupported, mutations, passes,
                 analysisData, harness, main, site, blog>>

\* mutant of Rethrow: the catch block throws a new plain Error
RethrowPlain(e) == "Error"

\* catch (error) { this.log(...); throw error; }
Rethrow(e) == e

\* mutant of Finally: the context is left open
FinallyWithoutClose ==
  /\ pc = "finally"
  /\ pageLoaded' = FALSE
  /\ error' = IF error = "none" THEN error ELSE Rethrow(error)
  /\ pc' = IF error = "none" THEN "returned" ELSE "thrown"
  /\ UNCHANGED <<viewport, contexts, kids, els, unsupported, mutations, passes, analysisData,
                 harness, main, site, blog>>

\* mutant of Finally: the catch block logs the error and does not rethrow it
FinallySwallowsError ==
  /\ pc = "finally"
  /\ contexts' = [contexts EXCEPT ![Len(contexts)] = "closed"]
  /\ pageLoaded' = FALSE
  /\ error' = "none"
  /\ pc' = "returned"
  /\ UNCHANGED <<viewport, kids, els, unsupported, mutations, passes, analysisData, harness,
                 main, site, blog>>

\* catch (error) { log; throw error } finally { await context.close() }
Finally ==
  /\ pc = "finally"
  /\ contexts' = [contexts EXCEPT ![Len(contexts)] = "closed"]
  /\ pageLoaded' = FALSE
  /\ error' = IF error = "none" THEN error ELSE Rethrow(error)
  /\ pc' = IF error = "none" THEN "returned" ELSE "thrown"
  /\ UNCHANGED <<viewport, kids, els, unsupported, mutations, passes, analysisData, harness,
                 main, site, blog>>

Next ==
  \/ AnalyzePage
  \/ NewContext
  \/ NewPage
  \/ Route
  \/ Goto
  \/ PageScript
  \/ CollectMetadata
  \/ CollectPerformanceMetrics
  \/ CollectDesignTokens
  \/ CollectElementData
  \/ CollectLayoutStructure
  \/ CollectAssets
  \/ IdentifyComponentPatterns
  \/ CollectorThrows
  \/ Finally

Spec == Init /\ [][Next]_vars

\* ------------------------------------------- collectDesignTokens on any page
\* computed styles an element of the page can have: the default style with
\* one group of properties set freely
TokenStyles ==
  {[DefaultStyle EXCEPT !.color = c, !.backgroundColor = b, !.borderColor = d] :
     c \in {"", "rgb(0, 0, 0)", "rgb(255, 0, 0)"}, b \in {"rgba(0, 0, 0, 0)", "rgb(255, 0, 0)"},
     d \in {"rgba(0, 0, 0, 0)", "rgb(0, 0, 0)"}}
  \cup {[DefaultStyle EXCEPT !.marginTop = m, !.marginLeft = l, !.paddingBottom = q] :
          m \in {"0px", "8px", "16px"}, l \in {"", "8px"}, q \in {"0px", "8px"}}
  \cup {[DefaultStyle EXCEPT !.fontFamily = f, !.fontWeight = w] :
          f \in {"", "Arial"}, w \in {"400", "700"}}
  \cup {[DefaultStyle EXCEPT !.borderRadius = r, !.boxShadow = x] :
          r \in {"0px", "4px"},
          x \in {"", "none", "rgba(0, 0, 0, 0.5) 0px 2px 4px 0px"}}
  \cup {[DefaultStyle EXCEPT !.backgroundImage = i] :
          i \in {EmptyStr, StrNone, ImgGradient, ImgUrl, ImgUrlGradient}}

\* <html><body><div><div>...: n elements, each the only child of the one before
ChainDocument(n) == [m \in Nodes |-> IF m < n THEN <<m + 1>> ELSE <<>>]

\* a loaded page whose first TokElements elements have any of the styles above
InitTokens ==
  /\ pc = "collectDesignTokens"
  /\ viewport = [width |-> 1920, height |-> 1080]
  /\ contexts = <<"open">>
  /\ pageLoaded = TRUE
  /\ kids = ChainDocument(TokElements)
  /\ \E st \in [1..TokElements -> TokenStyles] :
       els = [n \in Nodes |->
                IF n <= TokElements THEN [SamplePage[n] EXCEPT !.computed = st[n]]
                ELSE SamplePage[n]]
  /\ unsupported = {}
  /\ mutations = 0
  /\ passes = 1
  /\ error = "none"
  /\ analysisData = NewAnalysisData
  /\ harness = NoHarness
  /\ main = NoMain
  /\ site = SampleSite
  /\ blog = NoBlog

\* a caller runs collectDesignTokens() on the loaded page
RunCollectDesignTokens ==
  /\ pc = "collectDesignTokens"
  /\ Len(harness.tokenRuns) < MaxRuns
  /\ analysisData' = [analysisData EXCEPT !.designTokens = DesignTokensEval(kids, els)]
  /\ harness' = [harness EXCEPT !.tokenRuns = Append(@, analysisData'.designTokens)]
  /\ UNCHANGED <<pc, viewport, contexts, pageLoaded, kids, els, unsupported, mutations, passes,
                 error, main, site, blog>>

NextTokens == RunCollectDesignTokens

SpecTokens == InitTokens /\ [][NextTokens]_vars

\* ------------------------------------ identifyComponentPatterns on any page
\* tag name and class attribute an element of the page can have
PatternElements ==
  {<<TagButton, ClsButton>>, <<TagButton, ClsBtn>>,
   <<TagButton, ClsBtnSecondary>>, <<TagCard, ClsCard>>, <<TagForm, ClsFormItem>>,
   <<TagNav, EmptyStr>>, <<TagLi, EmptyStr>>, <<TagDiv, ClsModalHeader>>,
   <<TagDiv, EmptyStr>>}

\* <html><body>, with the other elements all children of body, or the first
\* of them a child of body and the rest its children
PatternDocuments ==
  {[n \in Nodes |-> IF n = Html THEN <<Body>>
                    ELSE IF n = Body THEN [i \in 1..(MaxNodes - 2) |-> i + 2]
                    ELSE <<>>],
   [n \in Nodes |-> IF n = Html THEN <<Body>>
                    ELSE IF n = Body THEN <<3>>
                    ELSE IF n = 3 THEN [i \in 1..(MaxNodes - 3) |-> i + 3]
                    ELSE <<>>]}

\* a loaded page with any of these elements, in a browser that rejects at
\* most one selector of the catalog
InitPatterns ==
  /\ pc = "identifyComponentPatterns"
  /\ viewport = [width |-> 1920, height |-> 1080]
  /\ contexts = <<"open">>
  /\ pageLoaded = TRUE
  /\ kids \in PatternDocuments
  /\ \E el \in [Nodes \ {Html, Body} -> PatternElements] :
       els = [n \in Nodes |->
                IF n \in {Html, Body} THEN SamplePage[n]
                ELSE [SamplePage[n] EXCEPT !.tagName = el[n][1], !.className = el[n][2]]]
  /\ unsupported \in {{}} \cup {{ComponentSelectors[i]} : i \in 1..Len(ComponentSelectors)}
  /\ mutations = 0
  /\ passes = 1
  /\ error = "none"
  /\ analysisData = NewAnalysisData
  /\ harness = NoHarness
  /\ main = NoMain
  /\ site = SampleSite
  /\ blog = NoBlog

\* a caller runs identifyComponentPatterns() on the loaded page
RunIdentifyComponentPatterns ==
  /\ pc = "identifyComponentPatterns"
  /\ harness.patternRuns = 0
  /\ harness' = [harness EXCEPT !.patternRuns = @ + 1]
  /\ LET result == ComponentPatternsEval(kids, els, unsupported)
     IN  IF result.thrown
         THEN /\ error' = pc
              /\ UNCHANGED analysisData
         ELSE /\ analysisData' = [analysisData EXCEPT !.componentPatterns = result.patterns]
              /\ UNCHANGED error
  /\ UNCHANGED <<pc, viewport, contexts, pageLoaded, kids, els, unsupported, mutations, passes,
                 main, site, blog>>

NextPatterns == RunIdentifyComponentPatterns

SpecPatterns == InitPatterns /\ [][NextPatterns]_vars

\* --------------------------------------- collectLayoutStructure on any page
\* tag name and role attribute an element of the page can have
LandmarkElements ==
  {<<TagHeader, EmptyStr>>, <<TagDiv, RoleBanner>>, <<TagNav, EmptyStr>>,
   <<TagDiv, RoleNavigation>>, <<TagMain, EmptyStr>>, <<TagDiv, RoleMain>>,
   <<TagAside, EmptyStr>>, <<TagDiv, RoleComplementary>>, <<TagFooter, EmptyStr>>,
   <<TagDiv, RoleContentinfo>>, <<TagDiv, EmptyStr>>}

LandmarkStyles ==
  {DefaultStyle, [DefaultStyle EXCEPT !.display = "flex", !.position = "fixed"]}

\* a loaded page whose elements below body are any of these
InitLayout ==
  /\ pc = "collectLayoutStructure"
  /\ viewport = [width |-> 1920, height |-> 1080]
  /\ contexts = <<"open">>
  /\ pageLoaded = TRUE
  /\ kids \in PatternDocuments
  /\ \E el \in [Nodes \ {Html, Body} -> LandmarkElements \X LandmarkStyles] :
       els = [n \in Nodes |->
                IF n \in {Html, Body} THEN SamplePage[n]
                ELSE [SamplePage[n] EXCEPT !.tagName = el[n][1][1], !.className = EmptyStr,
                                           !.role = el[n][1][2], !.computed = el[n][2]]]
  /\ unsupported = {}
  /\ mutations = 0
  /\ passes = 1
  /\ error = "none"
  /\ analysisData = NewAnalysisData
  /\ harness = NoHarness
  /\ main = NoMain
  /\ site = SampleSite
  /\ blog = NoBlog

\* a caller runs collectLayoutStructure() on the loaded page
RunCollectLayoutStructure ==
  /\ pc = "collectLayoutStructure"
  /\ harness.layoutRuns = 0
  /\ harness' = [harness EXCEPT !.layoutRuns = @ + 1]
  /\ analysisData' = [analysisData EXCEPT !.layout = LayoutEval(kids, els)]
  /\ UNCHANGED <<pc, viewport, contexts, pageLoaded, kids, els, unsupported, mutations, passes,
                 error, main, site, blog>>

NextLayout == RunCollectLayoutStructure

SpecLayout == InitLayout /\ [][NextLayout]_vars

\* ------------------------------------------------------------------- main()
\* the site analysed by main(): a responsive page whose style sheet, scripts
\* and markup show the first button from tablet width on, and everything
\* else from desktop width on
SiteDocument(v) ==
  [n \in Nodes |->
     IF n = Html THEN <<Body>>
     ELSE IF n = Body
          THEN SelectSeq([i \in 1..(MaxNodes - 2) |-> i + 2],
                         LAMBDA m : IF m = 3 THEN v.width >= 768 ELSE v.width >= 1024)
          ELSE <<>>]

\* what page.goto rejects with: Playwright's TimeoutError when the navigation
\* exceeds the timeout, an Error with the network's message for any other failure
NavigationFailures == {"timeout", "dns", "refused"}
PlaywrightError(failure) ==
  CASE failure = "timeout" -> "TimeoutError: page.goto: Timeout 60000ms exceeded"
    [] failure = "dns" -> "Error: page.goto: net::ERR_NAME_NOT_RESOLVED"
    [] failure = "refused" -> "Error: page.goto: net::ERR_CONNECTION_REFUSED"

\* await this.page.goto(url, ...) on the site of main()
GotoSite ==
  /\ pc = "goto"
  /\ \/ /\ pageLoaded' = TRUE
        /\ kids' = SiteDocument(viewport)
        /\ pc' = Collectors[1]
        /\ UNCHANGED error
        /\ main' = [main EXCEPT !.navigations =
                                   Append(@, [pass |-> passes, outcome |-> "loaded",
                                             width |-> viewport.width,
                                             height |-> viewport.height])]
     \/ /\ \E failure \in NavigationFailures :
             /\ error' = PlaywrightError(failure)
             /\ main' = [main EXCEPT !.navigations =
                                        Append(@, [pass |-> passes, outcome |-> failure,
                                                  width |-> viewport.width,
                                                  height |-> viewport.height])]
        /\ pc' = "finally"
        /\ UNCHANGED <<pageLoaded, kids, site, blog>>
  /\ UNCHANGED <<viewport, contexts, els, unsupported, mutations, passes, analysisData, harness,
                 site, blog>>

\* mutant of ResponsiveViewports: the mobile viewport in landscape
ResponsiveViewportsLandscape ==
  <<[name |-> "mobile", width |-> 667, height |-> 375],
    [name |-> "tablet", width |-> 768, height |-> 1024],
    [name |-> "desktop", width |-> 1920, height |-> 1080]>>

\* mutant of ResponsiveViewports: the widest viewport first
ResponsiveViewportsDesktopFirst ==
  <<[name |-> "desktop", width |-> 1920, height |-> 1080],
    [name |-> "tablet", width |-> 768, height |-> 1024],
    [name |-> "mobile", width |-> 375, height |-> 667]>>

\* const viewports = [ ... ] of analyzeResponsive
ResponsiveViewports ==
  <<[name |-> "mobile", width |-> 375, height |-> 667],
    [name |-> "tablet", width |-> 768, height |-> 1024],
    [name |-> "desktop", width |-> 1920, height |-> 1080]>>

\* node website-analyzer.js <url>: main() starts with a new WebsiteAnalyzer
InitMain ==
  /\ pc = "idle"
  /\ viewport = Null
  /\ contexts = <<>>
  /\ pageLoaded = FALSE
  /\ kids = BaseDocument
  /\ els = SamplePage
  /\ unsupported \in {{}, {ComponentSelectors[1]}}
  /\ mutations = 0
  /\ passes = 0
  /\ error = "none"
  /\ analysisData = NewAnalysisData
  /\ harness = NoHarness
  /\ main = [NoMain EXCEPT !.pc = "initialize"]
  /\ site \in Sites
  /\ blog = NoBlog

\* await analyzer.initialize()
Initialize ==
  /\ main.pc = "initialize"
  /\ \/ /\ main' = [main EXCEPT !.browser = "open", !.pc = "analyzePage"]
        /\ UNCHANGED error
     \/ /\ error' = "launch"
        /\ main' = [main EXCEPT !.pc = "catch"]
  /\ UNCHANGED <<pc, viewport, contexts, pageLoaded, kids, els, unsupported, mutations, passes,
                 analysisData, harness, site, blog>>

\* mutant of MainAnalyzePage: the primary pass at the mobile size
MainAnalyzePageMobile ==
  /\ main.pc = "analyzePage"
  /\ pc = "idle"
  /\ viewport' = [width |-> 375, height |-> 667]
  /\ passes' = passes + 1
  /\ pc' = "newContext"
  /\ UNCHANGED <<contexts, pageLoaded, kids, els, unsupported, mutations, error, analysisData,
                 harness, main, site, blog>>

\* await analyzer.analyzePage(url, { width: 1920, height: 1080 })
MainAnalyzePage ==
  /\ main.pc = "analyzePage"
  /\ pc = "idle"
  /\ viewport' = [width |-> 1920, height |-> 1080]
  /\ passes' = passes + 1
  /\ pc' = "newContext"
  /\ UNCHANGED <<contexts, pageLoaded, kids, els, unsupported, mutations, error, analysisData,
                 harness, main, site, blog>>

\* mutant of ResponsiveEntry: the element count read from the wrong list
ResponsiveEntryOfPatterns(v, data) ==
  [viewport |-> v,
   elementCount |-> Len(data.componentPatterns),
   layoutStructure |-> data.layout,
   designTokens |-> data.designTokens]

\* responsiveData[viewport.name] = { viewport, elementCount: ..., ... }
ResponsiveEntry(v, data) ==
  [viewport |-> v,
   elementCount |-> Len(data.elements),
   layoutStructure |-> data.layout,
   designTokens |-> data.designTokens]

\* await analyzer.analyzeResponsive(url), up to its first analyzePage call
AnalyzeResponsive ==
  /\ main.pc = "analyzePage"
  /\ pc = "returned"
  /\ main' = [main EXCEPT !.pc = "analyzeResponsive", !.i = 1, !.responsiveData = <<>>]
  /\ viewport' = ResponsiveViewports[1]
  /\ passes' = passes + 1
  /\ pc' = "newContext"
  /\ UNCHANGED <<contexts, pageLoaded, kids, els, unsupported, mutations, error, analysisData,
                 harness, site, blog>>

\* mutant of NextViewport: the map is published after every turn of the loop
NextViewportPublishing ==
  /\ main.pc = "analyzeResponsive"
  /\ pc = "returned"
  /\ LET v == ResponsiveViewports[main.i]
         responsiveData == MapSet(main.responsiveData, v.name, ResponsiveEntry(v, analysisData))
     IN  /\ analysisData' = [analysisData EXCEPT !.responsive = responsiveData]
         /\ IF main.i < Len(ResponsiveViewports)
            THEN /\ main' = [main EXCEPT !.i = @ + 1, !.responsiveData = responsiveData]
                 /\ viewport' = ResponsiveViewports[main.i + 1]
                 /\ passes' = passes + 1
                 /\ pc' = "newContext"
            ELSE /\ main' = [main EXCEPT !.pc = "saveResults",
                                         !.responsiveData = responsiveData]
                 /\ pc' = "idle"
                 /\ UNCHANGED <<viewport, passes>>
  /\ UNCHANGED <<contexts, pageLoaded, kids, els, unsupported, mutations, error, harness, site,
                 blog>>

\* the rest of one turn of the loop of analyzeResponsive, after its analyzePage
\* call has returned: the entry of this viewport is stored, and then either
\* the next turn calls analyzePage or the loop ends and the map is published
NextViewport ==
  /\ main.pc = "analyzeResponsive"
  /\ pc = "returned"
  /\ LET v == ResponsiveViewports[main.i]
         responsiveData == MapSet(main.responsiveData, v.name, ResponsiveEntry(v, analysisData))
     IN  IF main.i < Len(ResponsiveViewports)
         THEN /\ main' = [main EXCEPT !.i = @ + 1, !.responsiveData = responsiveData]
              /\ viewport' = ResponsiveViewports[main.i + 1]
              /\ passes' = passes + 1
              /\ pc' = "newContext"
              /\ UNCHANGED analysisData
         ELSE /\ main' = [main EXCEPT !.pc = "saveResults", !.responsiveData = responsiveData]
              /\ analysisData' = [analysisData EXCEPT !.responsive = responsiveData]
              /\ pc' = "idle"
              /\ UNCHANGED <<viewport, passes, site, blog>>
  /\ UNCHANGED <<contexts, pageLoaded, kids, els, unsupported, mutations, error, harness, site,
                 blog>>

\* new URL(url).hostname for the urls of the model, which are in lower case:
\* the text between "://" and the first ':', '/', '?' or '#' after it, or the
\* bracketed address; null stands for the TypeError of an invalid url
Hostname(url) ==
  LET starts == {i \in 2..(Len(url) - 2) : SubSeq(url, i, i + 2) = <<":", "/", "/">>}
      first == (CHOOSE i \in starts : \A j \in starts : i <= j) + 3
      ends == IF url[first] = "["
              THEN {i \in first..Len(url) : url[i] = "]"}
              ELSE {i - 1 : i \in {j \in first..Len(url) : url[j] \in {":", "/", "?", "#"}}}
                   \cup {Len(url)}
      last == CHOOSE i \in ends : \A j \in ends : i <= j
  IN  IF starts = {} \/ first > Len(url) \/ ends = {} THEN NullStr
      ELSE IF last < first THEN NullStr
      ELSE SubSeq(url, first, last)

\* String.prototype.replace(/[...]/g, by): every character of the class replaced
ReplaceAll(s, class, by) == [i \in 1..Len(s) |-> IF s[i] \in class THEN by ELSE s[i]]

\* what new Date().toISOString() returns at the moments saveResults runs
Timestamps ==
  {<<"2", "0", "2", "6", "-", "1", "1", "-", "0", "1", "T", "1", "2", ":", "0", "0", ":", "0", "0", ".", "0", "0", "0", "Z">>,
   <<"2", "0", "2", "6", "-", "1", "1", "-", "0", "1", "T", "1", "2", ":", "0", "0", ":", "0", "1", ".", "2", "5", "0", "Z">>}

\* mutant of SaveResultsEval: the output directory is made before the url is parsed
SaveResultsEvalDirFirst(data, disk, timestamp) ==
  LET domain == IF "url" \in DOMAIN data.metadata THEN Hostname(data.metadata.url)
                ELSE NullStr
      filename == ReplaceAll(domain, {"."}, "_") \o <<"_", "a", "n", "a", "l", "y", "s", "i", "s", "_">>
                    \o ReplaceAll(timestamp, {":", "."}, "-") \o <<".", "j", "s", "o", "n">>
  IN  IF domain = NullStr
      THEN [thrown |-> TRUE, dirs |-> disk.dirs \cup {domain}, files |-> disk.files]
      ELSE [thrown |-> FALSE,
            dirs |-> disk.dirs \cup {domain},
            files |-> Append(disk.files,
                             [dir |-> domain, name |-> filename, content |-> data])]

\* saveResults() without a filename on a disk that takes the write: the
\* directories and files afterwards, or thrown when new URL(...) throws. The
\* Sets of the document are already kept as the arrays Array.from gives
SaveResultsEval(data, disk, timestamp) ==
  LET domain == IF "url" \in DOMAIN data.metadata THEN Hostname(data.metadata.url)
                ELSE NullStr
      filename == ReplaceAll(domain, {"."}, "_") \o <<"_", "a", "n", "a", "l", "y", "s", "i", "s", "_">>
                    \o ReplaceAll(timestamp, {":", "."}, "-") \o <<".", "j", "s", "o", "n">>
  IN  IF domain = NullStr
      THEN [thrown |-> TRUE, dirs |-> disk.dirs, files |-> disk.files]
      ELSE [thrown |-> FALSE,
            dirs |-> disk.dirs \cup {domain},
            files |-> Append(disk.files,
                             [dir |-> domain, name |-> filename, content |-> data])]

\* const outputFile = await analyzer.saveResults(); console.log(...): the
\* document is written, or new URL, mkdirSync or writeFileSync throws
SaveResults ==
  /\ main.pc = "saveResults"
  /\ \/ \E timestamp \in Timestamps :
          LET result == SaveResultsEval(analysisData, main, timestamp)
          IN  IF result.thrown
              THEN /\ error' = "Invalid URL"
                   /\ main' = [main EXCEPT !.pc = "catch"]
              ELSE /\ main' = [main EXCEPT !.files = result.files, !.dirs = result.dirs,
                                           !.pc = "close"]
                   /\ UNCHANGED error
     \/ /\ error' = "saveResults"
        /\ main' = [main EXCEPT !.pc = "catch"]
  /\ UNCHANGED <<pc, viewport, contexts, pageLoaded, kids, els, unsupported, mutations, passes,
                 analysisData, harness, site, blog>>

\* mutant of MainCatch: the error is printed and main goes on to its finally
MainCatchWithoutExit ==
  /\ \/ main.pc = "catch"
     \/ main.pc \in {"analyzePage", "analyzeResponsive"} /\ pc = "thrown"
  /\ main' = [main EXCEPT !.stderr = Append(@, error), !.pc = "close"]
  /\ UNCHANGED <<pc, viewport, contexts, pageLoaded, kids, els, unsupported, mutations, passes,
                 error, analysisData, harness, site, blog>>

\* catch (error) { console.error('Analysis failed:', error.message);
\* process.exit(1); }: the process ends inside the catch block
MainCatch ==
  /\ \/ main.pc = "catch"
     \/ main.pc \in {"analyzePage", "analyzeResponsive"} /\ pc = "thrown"
  /\ main' = [main EXCEPT !.stderr = Append(@, error), !.exitCode = 1, !.pc = "exited"]
  /\ UNCHANGED <<pc, viewport, contexts, pageLoaded, kids, els, unsupported, mutations, passes,
                 error, analysisData, harness, site, blog>>

\* finally { await analyzer.close(); } when the try block has completed
Close ==
  /\ main.pc = "close"
  /\ main' = [main EXCEPT !.browser = "closed", !.exitCode = 0, !.pc = "done"]
  /\ UNCHANGED <<pc, viewport, contexts, pageLoaded, kids, els, unsupported, mutations, passes,
                 error, analysisData, harness, site, blog>>

NextMain ==
  \/ Initialize
  \/ MainAnalyzePage
  \/ NewContext
  \/ NewPage
  \/ Route
  \/ GotoSite
  \/ CollectMetadata
  \/ CollectPerformanceMetrics
  \/ CollectDesignTokens
  \/ CollectElementData
  \/ CollectLayoutStructure
  \/ CollectAssets
  \/ IdentifyComponentPatterns
  \/ CollectorThrows
  \/ Finally
  \/ AnalyzeResponsive
  \/ NextViewport
  \/ SaveResults
  \/ MainCatch
  \/ Close

SpecMain == InitMain /\ [][NextMain]_vars

\* ------------------------------------------------- saveResults on its own
\* an analyzer whose caller goes on after a pass that may have failed: no
\* pass has stored anything, or a pass threw right after collectMetadata
InitSave ==
  /\ pc = "idle"
  /\ viewport = Null
  /\ contexts = <<>>
  /\ pageLoaded = FALSE
  /\ kids = BaseDocument
  /\ els = SamplePage
  /\ unsupported = {}
  /\ mutations = 0
  /\ passes = 0
  /\ error = "none"
  /\ site \in Sites
  /\ analysisData \in
       {NewAnalysisData} \cup
       {[NewAnalysisData EXCEPT !.metadata =
           [url |-> site.url,
            viewport |-> v,
            elementCount |-> ElementCountEval(SiteDocument(v)),
            domDepth |-> DomDepthEval(SiteDocument(v)),
            description |-> site.description]] : v \in Viewports}
  /\ harness = NoHarness
  /\ main = NoMain
  /\ blog = NoBlog

\* a caller runs saveResults(filename) and catches what it throws: without a
\* filename the name is built from metadata.url; with one, or after the name
\* is built, the document is written, unless the disk refuses
RunSaveResults ==
  /\ pc = "idle"
  /\ main.pc = "off"
  /\ harness.saveRuns < MaxRuns
  /\ \/ /\ harness' = [harness EXCEPT !.saveRuns = @ + 1, !.saveFilename = NullStr]
        /\ \E timestamp \in Timestamps :
             LET result == SaveResultsEval(analysisData, main, timestamp)
             IN  /\ main' = [main EXCEPT !.files = result.files, !.dirs = result.dirs]
                 /\ error' = IF result.thrown THEN "Invalid URL" ELSE "none"
     \/ /\ harness' = [harness EXCEPT !.saveRuns = @ + 1,
                                      !.saveFilename = <<"o", "u", "t", ".", "j", "s", "o", "n">>]
        /\ main' = [main EXCEPT !.files =
                                  Append(@, [dir |-> <<".">>,
                                             name |-> harness'.saveFilename,
                                             content |-> analysisData])]
        /\ error' = "none"
     \/ /\ harness' = [harness EXCEPT !.saveRuns = @ + 1,
                                      !.saveFilename = <<"o", "u", "t", ".", "j", "s", "o", "n">>]
        /\ error' = "saveResults"
        /\ UNCHANGED main
  /\ UNCHANGED <<pc, viewport, contexts, pageLoaded, kids, els, unsupported, mutations, passes,
                 analysisData, site, blog>>

SpecSave == InitSave /\ [][RunSaveResults]_vars

\* ------------------------------------------------------ prepareBlogImages
\* const blogImages = [ ... ]
BlogImages ==
  <<[filename |-> "SRM-1-copia.png",
     alt |-> "Larry Reed McGee Portrait - Featured image for tribute article"],
    [filename |-> "SRM-2-copia-1024x398.png",
     alt |-> "Larry Reed McGee Memory Photo - Family moments"],
    [filename |-> "SRM-2-1024x390.png",
     alt |-> "Larry Reed McGee with Family - Personal memories"]>>

\* payload.find({ collection: 'media', where: { filename: { equals } } }).docs
FindMedia(docs, filename) == SelectSeq(docs, LAMBDA d : d.filename = filename)

\* mutant of NoneFound: the result of the lookup is not looked at
NoneFoundAlways(existing) == TRUE

\* if (existing.docs.length === 0)
NoneFound(existing) == Len(existing) = 0

\* the seed script is about to run: the media directory holds any of the
\* listed files, the media collection is empty or holds the first image
\* already, and the post of the letter exists or not
InitBlog ==
  /\ pc = "idle"
  /\ viewport = Null
  /\ contexts = <<>>
  /\ pageLoaded = FALSE
  /\ kids = BaseDocument
  /\ els = SamplePage
  /\ unsupported = {}
  /\ mutations = 0
  /\ passes = 0
  /\ error = "none"
  /\ analysisData = NewAnalysisData
  /\ harness = NoHarness
  /\ main = NoMain
  /\ site = SampleSite
  /\ \E disk \in SUBSET {BlogImages[i].filename : i \in 1..Len(BlogImages)},
        docs \in {<<>>, <<[id |-> 1, filename |-> BlogImages[1].filename,
                           alt |-> BlogImages[1].alt]>>},
        post \in {[exists |-> FALSE, featuredImage |-> Null],
                  [exists |-> TRUE, featuredImage |-> Null]} :
       blog = [pc |-> "start", i |-> 0, uploadedMedia |-> <<>>, failed |-> {},
               disk |-> disk, docs |-> docs, post |-> post, runs |-> 0]

\* prepareBlogImages() up to its loop: getPayload, then the empty uploadedMedia
PrepareBlogImages ==
  /\ blog.pc \in {"start", "exited"}
  /\ blog.runs < MaxRuns
  /\ blog' = [blog EXCEPT !.pc = "loop", !.i = 1, !.uploadedMedia = <<>>, !.failed = {}]
  /\ UNCHANGED <<pc, viewport, contexts, pageLoaded, kids, els, unsupported, mutations, passes,
                 error, analysisData, harness, main, site>>

\* one turn of for (const imageInfo of blogImages): the file is missing, or
\* the lookup or the upload throws and the error is logged, or the document
\* is created, or the existing one is taken; then the loop goes on
ProcessImage ==
  /\ blog.pc = "loop"
  /\ LET imageInfo == BlogImages[blog.i]
         existing == FindMedia(blog.docs, imageInfo.filename)
         media == [id |-> Len(blog.docs) + 1, filename |-> imageInfo.filename,
                   alt |-> imageInfo.alt]
         turn == IF blog.i < Len(BlogImages)
                 THEN [blog EXCEPT !.i = @ + 1]
                 ELSE [blog EXCEPT !.pc = "link"]
     IN  IF imageInfo.filename \notin blog.disk
         THEN blog' = turn
         ELSE \/ blog' = [turn EXCEPT !.failed = @ \cup {imageInfo.filename}]
              \/ IF NoneFound(existing)
                 THEN blog' = [turn EXCEPT
                                 !.docs = Append(@, media),
                                 !.uploadedMedia = MapSet(@, imageInfo.filename, media.id)]
                 ELSE blog' = [turn EXCEPT
                                 !.uploadedMedia = MapSet(@, imageInfo.filename, existing[1].id)]
  /\ UNCHANGED <<pc, viewport, contexts, pageLoaded, kids, els, unsupported, mutations, passes,
                 error, analysisData, harness, main, site>>

\* the rest of the script: the first image becomes the featured image of the
\* post when both are there, the setup is listed, and the process exits; a
\* call that throws is logged by the outer catch
LinkFeaturedImage ==
  /\ blog.pc = "link"
  /\ LET uploaded == SelectSeq(blog.uploadedMedia,
                           LAMBDA entry : entry.key = BlogImages[1].filename)
     IN  \/ blog' = [blog EXCEPT !.pc = "exited", !.runs = @ + 1]
         \/ /\ uploaded # <<>>
            /\ blog.post.exists
            /\ blog' = [blog EXCEPT !.pc = "exited", !.runs = @ + 1,
                                    !.post.featuredImage = uploaded[1].value]
  /\ UNCHANGED <<pc, viewport, contexts, pageLoaded, kids, els, unsupported, mutations, passes,
                 error, analysisData, harness, main, site>>

NextBlog ==
  \/ PrepareBlogImages
  \/ ProcessImage
  \/ LinkFeaturedImage

SpecBlog == InitBlog /\ [][NextBlog]_vars

\* ------------------------------------------------------------------ claims
Elements == analysisData.elements

\* C1: when a pass of analyzePage completes, the number of element records
\* equals metadata.elementCount, and both equal the number of elements a
\* universal-selector query finds in the document, also on a page whose
\* scripts add or remove elements during the pass
ElementCountAgrees ==
  pc = "returned" =>
    /\ Len(Elements) = analysisData.metadata.elementCount
    /\ Len(Elements) = Len(QuerySelectorAll(kids))

\* C2: every record's parentIndex is null, and then the record is the root
\* element's, or it is the index of a record of the same sequence whose
\* childCount is at least 1; it is never -1 or out of range
ParentIndexValid ==
  \A i \in 1..Len(Elements) :
    LET r == Elements[i]
    IN  \/ r.parentIndex = Null /\ i = 1
        \/ /\ r.parentIndex \in 0..(Len(Elements) - 1)
           /\ Elements[r.parentIndex + 1].index = r.parentIndex
           /\ Elements[r.parentIndex + 1].childCount >= 1

\* a completed pass recorded the root and an element whose parent is not the root
ParentIndexWitness ==
  /\ pc = "returned"
  /\ \E i \in 1..Len(Elements) : Elements[i].parentIndex = Null
  /\ \E i \in 1..Len(Elements) : Elements[i].parentIndex >= 1

\* C3: the record at position i carries index i (counted from 0), and every
\* non-null parentIndex is strictly smaller than the record's own index
IndexDenseParentBefore ==
  \A i \in 1..Len(Elements) :
    /\ Elements[i].index = i - 1
    /\ Elements[i].parentIndex # Null => Elements[i].parentIndex < Elements[i].index

\* a completed pass recorded an element whose parent is not the record just before it
IndexDenseWitness ==
  /\ pc = "returned"
  /\ \E i \in 1..Len(Elements) :
       /\ Elements[i].parentIndex # Null
       /\ Elements[i].parentIndex < Elements[i].index - 1

Tokens == analysisData.designTokens
TokenKinds == {"colors", "fonts", "spacing", "borderRadius", "boxShadows", "gradients"}
Styles == {els[n].computed : n \in Attached(kids)}

\* C4: after collectDesignTokens the colors never contain 'rgba(0, 0, 0, 0)',
\* the spacing never contains '0px' and the box shadows never contain 'none'
NoExcludedTokens ==
  /\ "rgba(0, 0, 0, 0)" \notin Range(Tokens.colors)
  /\ "0px" \notin Range(Tokens.spacing)
  /\ "none" \notin Range(Tokens.boxShadows)

\* the collector ran on a page with a transparent background, a zero margin
\* and an element without shadow, and still found colours, spacing and a shadow
NoExcludedTokensWitness ==
  /\ harness.tokenRuns # <<>>
  /\ \E c \in Styles : c.backgroundColor = "rgba(0, 0, 0, 0)"
  /\ \E c \in Styles : c.marginTop = "0px"
  /\ \E c \in Styles : c.boxShadow = "none"
  /\ Tokens.colors # <<>> /\ Tokens.spacing # <<>> /\ Tokens.boxShadows # <<>>

\* the values of the page that qualify for each collection
Qualifying ==
  [colors |-> UNION {{c.color, c.backgroundColor, c.borderColor} : c \in Styles}
                \ {"", "rgba(0, 0, 0, 0)"},
   fonts |-> {<<c.fontFamily, " ", c.fontWeight>> : c \in {d \in Styles : d.fontFamily # ""}},
   spacing |-> UNION {{c.marginTop, c.marginRight, c.marginBottom, c.marginLeft,
                       c.paddingTop, c.paddingRight, c.paddingBottom, c.paddingLeft} :
                      c \in Styles} \ {"", "0px"},
   borderRadius |-> {c.borderRadius : c \in Styles} \ {"", "0px"},
   boxShadows |-> {c.boxShadow : c \in Styles} \ {"", "none"},
   gradients |-> {c.backgroundImage : c \in {d \in Styles : Includes(d.backgroundImage, StrGradient)}}]

\* C5: each collection holds every qualifying value of the page exactly once,
\* and every run of collectDesignTokens on the unchanged page gives the same
\* collections
TokensDistinctAndStable ==
  harness.tokenRuns # <<>> =>
    /\ \A kind \in TokenKinds :
         /\ Range(Tokens[kind]) = Qualifying[kind]
         /\ \A i, j \in 1..Len(Tokens[kind]) : Tokens[kind][i] = Tokens[kind][j] => i = j
    /\ \A r \in 1..Len(harness.tokenRuns) : harness.tokenRuns[r] = Tokens

\* the collector ran twice on a page where two elements share a colour and
\* a second colour occurs as well
TokensDistinctWitness ==
  /\ Len(harness.tokenRuns) = 2
  /\ Len(Tokens.colors) >= 2
  /\ \E n, m \in Attached(kids) :
       n # m /\ els[n].computed.color = els[m].computed.color
             /\ els[n].computed.color \in Range(Tokens.colors)

Patterns == analysisData.componentPatterns
MatchCount(selector) == Len(QuerySelectorAllMatching(selector, kids, els))
PositionInCatalog(selector) == IndexOf(ComponentSelectors, selector)

\* C6: every pattern of componentPatterns has count >= 2, and the selector of
\* every pattern matches at least two elements: a selector that matches zero
\* or one element produces no pattern
PatternCountAtLeastTwo ==
  \A i \in 1..Len(Patterns) :
    /\ Patterns[i].count >= 2
    /\ MatchCount(Patterns[i].selector) >= 2

\* the collector ran on a page where one selector of the catalog matches a
\* single element and another one matches two
PatternCountWitness ==
  /\ harness.patternRuns = 1
  /\ Patterns # <<>>
  /\ \E i \in 1..Len(ComponentSelectors) :
       ComponentSelectors[i] \notin unsupported /\ MatchCount(ComponentSelectors[i]) = 1

\* C7: for every selector of the catalog that matches two or more elements,
\* componentPatterns has a pattern with that selector, whose count is the
\* number of matches and which has one variation per match, also when several
\* selectors of the catalog match at once
EveryRepeatedSelectorHasPattern ==
  (harness.patternRuns = 1 /\ unsupported = {}) =>
    \A s \in Range(ComponentSelectors) :
      MatchCount(s) >= 2 =>
        \E i \in 1..Len(Patterns) :
          /\ Patterns[i].selector = s
          /\ Patterns[i].count = MatchCount(s)
          /\ Len(Patterns[i].variations) = MatchCount(s)

\* C8: when the evaluation of one selector of the catalog throws, no error
\* reaches the caller, no pattern is emitted for that selector, and the
\* patterns are those the catalog without that selector gives
ThrowingEntrySkipped ==
  harness.patternRuns = 1 =>
    /\ error = "none"
    /\ \A i \in 1..Len(Patterns) : Patterns[i].selector \notin unsupported
    /\ Patterns = PatternsOver(SelectSeq(ComponentSelectors, LAMBDA s : s \notin unsupported),
                               kids, els, {}).patterns

\* the collector ran in a browser that rejects a selector matching two
\* elements, and emitted a pattern of an earlier and of a later catalog entry
ThrowingEntryWitness ==
  /\ harness.patternRuns = 1
  /\ \E u \in unsupported :
       /\ MatchCount(u) >= 2
       /\ \E i, j \in 1..Len(Patterns) :
            /\ PositionInCatalog(Patterns[i].selector) < PositionInCatalog(u)
            /\ PositionInCatalog(u) < PositionInCatalog(Patterns[j].selector)

\* the parts a section record carries, whatever key holds them
HasBox(section) ==
  "dimensions" \in DOMAIN section /\ DOMAIN section.dimensions = {"width", "height"}
HasPoint(section) ==
  \E key \in DOMAIN section \ {"exists"} : DOMAIN section[key] = {"x", "y"}
HasDisplay(section) ==
  "display" \in DOMAIN section /\ DOMAIN section.display = {"str"}
HasPositionMode(section) ==
  \E key \in DOMAIN section \ {"exists", "display"} : DOMAIN section[key] = {"str"}

\* C9: layout.sections has exactly the keys header, nav, main, aside and
\* footer, and each value is {exists:false} or a record with exists:true, the
\* box dimensions, the x/y position, the display value and the position mode
SectionsAbsentOrComplete ==
  harness.layoutRuns = 1 =>
    /\ DOMAIN analysisData.layout.sections = {"header", "nav", "main", "aside", "footer"}
    /\ \A key \in DOMAIN analysisData.layout.sections :
         LET section == analysisData.layout.sections[key]
         IN  \/ section = [exists |-> FALSE]
             \/ /\ section.exists
                /\ HasBox(section) /\ HasPoint(section)
                /\ HasDisplay(section) /\ HasPositionMode(section)

\* C10: when analyzePage has returned or thrown, every browsing context it
\* created is closed
ContextsClosedOnExit ==
  pc \in {"returned", "thrown"} => \A i \in 1..Len(contexts) : contexts[i] = "closed"

\* the browsing contexts that are open now
OpenContexts == {c \in 1..Len(contexts) : contexts[c] = "open"}

\* C11: during one run of main at most one browsing context is open at any
\* time: the context of a pass is closed before the context of the next pass
\* is created
AtMostOneContextOpen ==
  /\ Cardinality(OpenContexts) <= 1
  /\ \A c \in OpenContexts : c = Len(contexts)

\* the fourth pass of a run has its context open, the three before are closed
AtMostOneContextWitness ==
  /\ main.pc = "analyzeResponsive"
  /\ Len(contexts) = 4
  /\ contexts[4] = "open"
  /\ pc = "collectElementData"

\* the navigation of the running (or last) pass, if it got that far
Navigated == main.navigations # <<>> /\ main.navigations[Len(main.navigations)].pass = passes
NavigationOutcome == main.navigations[Len(main.navigations)].outcome

\* C12: a navigation that exceeds the timeout makes analyzePage fail with the
\* timeout kind of error (Playwright's TimeoutError, the NavigationTimeout of
\* the taxonomy), any other navigation failure with an error that carries the
\* underlying failure's message (NavigationError); the caller can tell the
\* two apart
NavigationErrorsDistinguishable ==
  (pc = "thrown" /\ Navigated /\ NavigationOutcome # "loaded") =>
     /\ error = PlaywrightError(NavigationOutcome)
     /\ (error = PlaywrightError("timeout")) <=> (NavigationOutcome = "timeout")
     /\ \A failure \in NavigationFailures \ {NavigationOutcome} :
          error # PlaywrightError(failure)

\* a responsive pass has failed because its navigation timed out
NavigationErrorsWitness ==
  /\ pc = "thrown"
  /\ main.pc = "analyzeResponsive"
  /\ Navigated
  /\ NavigationOutcome = "timeout"

\* C13: if the navigation of any pass of main fails (the primary pass or one
\* of the three responsive passes), no output document is written:
\* saveResults is never called and no later pass is started
NoOutputAfterNavigationFailure ==
  \A n \in 1..Len(main.navigations) :
    main.navigations[n].outcome # "loaded" =>
      /\ main.files = <<>>
      /\ main.pc \notin {"saveResults", "close", "done"}
      /\ n = Len(main.navigations)
      /\ passes = main.navigations[n].pass
      /\ Len(contexts) = passes

\* main has ended after the navigation of the tablet pass failed
NoOutputWitness ==
  /\ main.pc = "exited"
  /\ Navigated
  /\ NavigationOutcome = "refused"
  /\ viewport = ResponsiveViewports[2]

\* C14: an error thrown by initialize, analyzePage, analyzeResponsive or
\* saveResults ends main with exit status 1 after the error's text is
\* printed, and the step that failed is not attempted again: each pass
\* navigates at most once
ErrorEndsMain ==
  /\ [][(error # "none" /\ pc # "finally") =>
          /\ main'.pc = "exited"
          /\ main'.exitCode = 1
          /\ main'.stderr = <<error>>
          /\ passes' = passes
          /\ main'.navigations = main.navigations
          /\ main'.files = main.files]_vars
  /\ [](\A m, n \in 1..Len(main.navigations) :
          main.navigations[m].pass = main.navigations[n].pass => m = n)
  /\ [](main.pc = "exited" => main.exitCode = 1 /\ main.stderr = <<error>>)

\* main has ended because saveResults threw, after four passes
ErrorEndsMainWitness ==
  /\ main.pc = "exited"
  /\ error \in {"saveResults", "Invalid URL"}
  /\ main.exitCode = 1
  /\ passes = 4

\* analyzeResponsive has completed: main is at or past saveResults
ResponsiveCompleted ==
  main.pc \in {"saveResults", "close", "done"} \/ error \in {"saveResults", "Invalid URL"}
\* the keys of the responsive map and the entry stored under a key
ResponsiveKeys == {analysisData.responsive[n].key : n \in 1..Len(analysisData.responsive)}
ResponsiveAt(name) ==
  analysisData.responsive[CHOOSE n \in 1..Len(analysisData.responsive) :
                            analysisData.responsive[n].key = name].value

\* C15: after analyzeResponsive completes, the responsive map has exactly the
\* keys mobile, tablet and desktop, and each entry's viewport has the
\* requested size: 375x667, 768x1024, 1920x1080
ResponsiveKeysAndSizes ==
  ResponsiveCompleted =>
    /\ Len(analysisData.responsive) = 3
    /\ ResponsiveKeys = {"mobile", "tablet", "desktop"}
    /\ ResponsiveAt("mobile").viewport.width = 375
    /\ ResponsiveAt("mobile").viewport.height = 667
    /\ ResponsiveAt("tablet").viewport.width = 768
    /\ ResponsiveAt("tablet").viewport.height = 1024
    /\ ResponsiveAt("desktop").viewport.width = 1920
    /\ ResponsiveAt("desktop").viewport.height = 1080

\* analyzeResponsive has just completed
ResponsiveKeysWitness ==
  /\ main.pc = "saveResults"
  /\ Len(analysisData.responsive) = 3

\* what the collectors of one pass read off the site at viewport v
OwnPass(entry) ==
  LET document == SiteDocument(entry.viewport)
  IN  /\ entry.elementCount = Len(ElementDataEval(document, els))
      /\ entry.layoutStructure = LayoutEval(document, els)
      /\ entry.designTokens = DesignTokensEval(document, els)

\* C16: for each viewport, the entry of the responsive map holds the element
\* count, layout and design tokens collected during that viewport's own
\* pass; the later passes, which overwrite the shared accumulator, do not
\* change them
EntriesKeepOwnPass ==
  /\ \A n \in 1..Len(main.responsiveData) :
       /\ main.responsiveData[n].key = ResponsiveViewports[n].name
       /\ main.responsiveData[n].value.viewport = ResponsiveViewports[n]
       /\ OwnPass(main.responsiveData[n].value)
  /\ \A n \in 1..Len(analysisData.responsive) :
       /\ analysisData.responsive[n].value.viewport = ResponsiveViewports[n]
       /\ OwnPass(analysisData.responsive[n].value)

\* a run has ended with three entries that differ in every collected part,
\* and the accumulator holds the data of the last pass
EntriesKeepOwnPassWitness ==
  /\ main.pc = "done"
  /\ ResponsiveAt("mobile").elementCount < ResponsiveAt("tablet").elementCount
  /\ ResponsiveAt("tablet").elementCount < ResponsiveAt("desktop").elementCount
  /\ ResponsiveAt("mobile").layoutStructure # ResponsiveAt("tablet").layoutStructure
  /\ ResponsiveAt("mobile").designTokens # ResponsiveAt("tablet").designTokens
  /\ ResponsiveAt("tablet").designTokens # ResponsiveAt("desktop").designTokens
  /\ analysisData.layout # ResponsiveAt("mobile").layoutStructure

\* C17: in the saved document the top-level metadata, elements, assets and
\* componentPatterns all come from a pass at the desktop viewport 1920x1080,
\* so the length of the top-level elements equals
\* responsive.desktop.elementCount
SavedTopLevelIsDesktop ==
  \A f \in 1..Len(main.files) :
    LET saved == main.files[f].content
        desktop == SiteDocument([width |-> 1920, height |-> 1080])
        entry == saved.responsive[CHOOSE n \in 1..Len(saved.responsive) :
                                    saved.responsive[n].key = "desktop"].value
    IN  /\ saved.metadata.viewport.width = 1920
        /\ saved.metadata.viewport.height = 1080
        /\ saved.metadata.elementCount = ElementCountEval(desktop)
        /\ saved.metadata.domDepth = DomDepthEval(desktop)
        /\ saved.elements = ElementDataEval(desktop, els)
        /\ saved.assets.backgroundImages = BackgroundImagesEval(desktop, els)
        /\ saved.componentPatterns = ComponentPatternsEval(desktop, els, unsupported).patterns
        /\ Len(saved.elements) = entry.elementCount

\* a document has been saved, with more elements than the mobile pass saw
SavedTopLevelWitness ==
  /\ Len(main.files) = 1
  /\ Len(main.files[1].content.elements) = 4
  /\ ResponsiveAt("mobile").elementCount = 2

\* the accumulator as the constructor left it
Untouched ==
  /\ DOMAIN analysisData.metadata = {}
  /\ analysisData.designTokens = EmptyTokens
  /\ analysisData.elements = <<>>
  /\ DOMAIN analysisData.layout = {}
  /\ analysisData.assets.backgroundImages = <<>>
  /\ analysisData.componentPatterns = <<>>

\* every part of the accumulator is what one complete pass at viewport v stores
FromPassAt(v) ==
  LET document == SiteDocument(v)
  IN  /\ DOMAIN analysisData.metadata =
           {"url", "viewport", "elementCount", "domDepth", "description", "performance"}
      /\ analysisData.metadata.viewport = v
      /\ analysisData.metadata.elementCount = ElementCountEval(document)
      /\ analysisData.designTokens = DesignTokensEval(document, els)
      /\ analysisData.elements = ElementDataEval(document, els)
      /\ DOMAIN analysisData.layout # {}
      /\ analysisData.layout = LayoutEval(document, els)
      /\ analysisData.assets.backgroundImages = BackgroundImagesEval(document, els)
      /\ analysisData.componentPatterns =
           ComponentPatternsEval(document, els, unsupported).patterns

\* C18: after any sequence of analyzePage calls on one analyzer, also calls
\* that fail partway, the metadata, designTokens, elements, layout, assets and
\* componentPatterns of the accumulated document all come from one and the
\* same fully successful pass: a failing pass leaves the document as it was
DocumentFromOnePass ==
  pc \in {"returned", "thrown"} =>
    \/ Untouched
    \/ \E v \in {[width |-> 1920, height |-> 1080]} \cup Range(ResponsiveViewports) :
         FromPassAt(v)

\* collectElementData stores its records in this step
ElementsCollected == pc = "collectElementData" /\ pc' = AfterCollector(pc)

\* C19: the textContent of an element record is the element's text trimmed
\* and cut to at most 200 characters, and null whenever the trimmed text is
\* empty, also for an element whose text is only white space; it is never
\* the empty string
TextContentTrimmedOrNull ==
  [][ElementsCollected =>
       LET allElements == QuerySelectorAll(kids)
       IN  /\ Len(analysisData'.elements) = Len(allElements)
           /\ \A n \in 1..Len(allElements) :
                LET trimmed == Trim(TextContent(kids, els, allElements[n]))
                    textContent == analysisData'.elements[n].textContent
                IN  /\ textContent # EmptyStr
                    /\ Len(textContent) <= 200
                    /\ textContent =
                         IF trimmed = EmptyStr THEN NullStr
                         ELSE SubSeq(trimmed, 1,
                                     IF Len(trimmed) < 200 THEN Len(trimmed) ELSE 200)]_vars

\* the step of a selector path that stands for one element: tag plus classes
StepOf(e, element) ==
  e[element].tagName \o
    (IF ClassList(e[element].className) # <<>>
     THEN <<".">> \o Join(ClassList(e[element].className), <<".">>)
     ELSE <<>>)

RECURSIVE WalkToId(_, _, _)
\* the steps from an ancestor upwards, ending at the first one that has an id
WalkToId(k, e, ancestor) ==
  IF ancestor = Null THEN <<>>
  ELSE IF e[ancestor].id # EmptyStr THEN <<StepOf(e, ancestor)>>
  ELSE Append(WalkToId(k, e, ParentElement(k, ancestor)), StepOf(e, ancestor))

\* C20: the selector of an element record is '#id' when the element has an
\* id and 'body' for the body element; otherwise it is the ' > '-joined path
\* of tag-plus-classes steps built by walking up from the element, and the
\* walk stops at the first ancestor that has an id: no step for an element
\* above that ancestor is in the path
SelectorStopsAtIdAncestor ==
  [][ElementsCollected =>
       LET allElements == QuerySelectorAll(kids)
       IN  /\ Len(analysisData'.elements) = Len(allElements)
           /\ \A n \in 1..Len(allElements) :
                LET element == allElements[n]
                    selector == analysisData'.elements[n].selector
                IN  IF els[element].id # EmptyStr THEN selector = <<"#">> \o els[element].id
                    ELSE IF element = Body THEN selector = TagBody
                    ELSE selector =
                           Join(Append(WalkToId(kids, els, ParentElement(kids, element)),
                                       StepOf(els, element)),
                                <<" ", ">", " ">>)]_vars

\* the document holds none of the five landmark elements
NoLandmarks ==
  \A n \in Attached(kids) :
    /\ els[n].tagName \notin {TagHeader, TagNav, TagMain, TagAside, TagFooter}
    /\ els[n].role \notin {RoleBanner, RoleNavigation, RoleMain, RoleComplementary,
                           RoleContentinfo}

\* C21: absent optional data never fails a pass: on a page with no meta
\* description and none of the five landmark elements analyzePage completes,
\* metadata.description is null and each of the five sections is
\* {exists: false}
MissingOptionalDataTolerated ==
  /\ error # "no element matches selector"
  /\ (pc = "returned" /\ site.description = NullStr /\ NoLandmarks) =>
       /\ analysisData.metadata.description = NullStr
       /\ DOMAIN analysisData.layout.sections = {"header", "nav", "main", "aside", "footer"}
       /\ \A key \in DOMAIN analysisData.layout.sections :
            analysisData.layout.sections[key] = [exists |-> FALSE]

\* the mobile pass over such a page has completed
MissingOptionalDataWitness ==
  /\ pc = "returned"
  /\ site.description = NullStr
  /\ NoLandmarks
  /\ viewport = ResponsiveViewports[1]
  /\ analysisData.metadata.viewport = viewport

\* collectAssets stores its inventory in this step
AssetsCollected == pc = "collectAssets" /\ pc' = AfterCollector(pc)

\* C22: assets.backgroundImages has one entry for exactly those elements
\* whose computed background-image is not 'none' and contains a url(...)
\* token (a value with gradients only gives no entry); the entry's url is
\* the first url(...) token, its selector is '#id' if the element has an id,
\* else '.' followed by the element's first class token, else the lowercased
\* tag name
BackgroundImagesBySelector ==
  [][AssetsCollected =>
       LET withUrl == SelectSeq(QuerySelectorAll(kids),
                                LAMBDA el : /\ els[el].computed.backgroundImage # StrNone
                                            /\ MatchUrl(els[el].computed.backgroundImage) # NullStr)
           images == analysisData'.assets.backgroundImages
       IN  /\ Len(images) = Len(withUrl)
           /\ \A n \in 1..Len(withUrl) :
                LET el == withUrl[n]
                IN  /\ images[n].url = MatchUrl(els[el].computed.backgroundImage)
                    /\ images[n].selector =
                         IF els[el].id # EmptyStr THEN <<"#">> \o els[el].id
                         ELSE IF ClassList(els[el].className) # <<>>
                              THEN <<".">> \o ClassList(els[el].className)[1]
                              ELSE els[el].tagName]_vars

\* letters, digits, '_' and '-'
PortableCharacters ==
  {"a", "b", "c", "d", "e", "f", "g", "h", "i", "j", "k", "l", "m", "n",
   "o", "p", "q", "r", "s", "t", "u", "v", "w", "x", "y", "z", "A", "B",
   "C", "D", "E", "F", "G", "H", "I", "J", "K", "L", "M", "N", "O", "P",
   "Q", "R", "S", "T", "U", "V", "W", "X", "Y", "Z", "0", "1", "2", "3",
   "4", "5", "6", "7", "8", "9", "_", "-"}

\* C23: saveResults without a filename names the output file after the
\* hostname of metadata.url with every non-alphanumeric character replaced,
\* then '_analysis_', then the ISO timestamp with every ':' and '.' replaced
\* by '-': before the '.json' extension the name has no character other
\* than letters, digits, '_' and '-'
FileNamePortable ==
  \A f \in 1..Len(main.files) :
    LET name == main.files[f].name
    IN  /\ Len(name) > 5
        /\ SubSeq(name, Len(name) - 4, Len(name)) = <<".", "j", "s", "o", "n">>
        /\ \A c \in 1..(Len(name) - 5) : name[c] \in PortableCharacters

\* the passes of a run of main as the claim lists them
PassSizes ==
  <<[width |-> 1920, height |-> 1080], [width |-> 375, height |-> 667],
    [width |-> 768, height |-> 1024], [width |-> 1920, height |-> 1080]>>

\* C24: a run of main launches the browser exactly once, before any pass; a
\* successful run then makes exactly four passes, in the order desktop
\* 1920x1080 (the primary pass), mobile 375x667, tablet 768x1024, desktop
\* 1920x1080; saveResults runs only after all four have completed
OneLaunchThenFourPasses ==
  /\ [](/\ passes > 0 => main.browser # "none"
        /\ passes <= Len(PassSizes)
        /\ \A n \in 1..Len(main.navigations) :
             /\ main.navigations[n].pass = n
             /\ main.navigations[n].width = PassSizes[n].width
             /\ main.navigations[n].height = PassSizes[n].height
        /\ main.pc \in {"saveResults", "close", "done"} \/ main.files # <<>> =>
             /\ passes = Len(PassSizes)
             /\ Len(main.navigations) = Len(PassSizes)
             /\ \A n \in 1..Len(main.navigations) : main.navigations[n].outcome = "loaded"
             /\ pc = "idle")
  /\ [][/\ main'.browser = "none" => main.browser = "none"
        /\ main'.browser = "open" /\ main.browser # "open" =>
             main.browser = "none" /\ passes = 0 /\ main.pc = "initialize"]_vars

OneLaunchThenFourPassesWitness ==
  /\ main.pc = "done"
  /\ main.exitCode = 0
  /\ main.files # <<>>
  /\ Len(main.navigations) = Len(PassSizes)

\* the collectors in the order the claim gives them
CollectionOrder ==
  <<"collectMetadata", "collectPerformanceMetrics", "collectDesignTokens",
    "collectElementData", "collectLayoutStructure", "collectAssets",
    "identifyComponentPatterns">>

\* C25: within one analysis pass the collectors run one at a time in the
\* order metadata, performance metrics, design tokens, element data, layout,
\* assets, component patterns; a collector starts only when navigation has
\* succeeded or the collector before it has finished, none runs once the
\* context of the pass is closed, and no collector changes the page
CollectorsInOrder ==
  /\ [](pc \in Range(CollectionOrder) =>
          /\ pageLoaded
          /\ contexts # <<>>
          /\ contexts[Len(contexts)] = "open")
  /\ [][/\ pc' \in Range(CollectionOrder) /\ pc' # pc =>
             \/ pc = "goto" /\ pc' = CollectionOrder[1] /\ pageLoaded'
             \/ \E n \in 1..(Len(CollectionOrder) - 1) :
                  pc = CollectionOrder[n] /\ pc' = CollectionOrder[n + 1]
        /\ pc \in Range(CollectionOrder) /\ pc' # pc =>
             /\ kids' = kids
             /\ els' = els
             /\ pageLoaded'
             /\ contexts' = contexts
             /\ pc' = "finally" \/ pc' \in Range(CollectionOrder)
        /\ pc # "finally" /\ pc' = "finally" /\ error' = "none" =>
             pc = CollectionOrder[Len(CollectionOrder)]]_vars

CollectorsInOrderWitness ==
  /\ pc = "finally"
  /\ error = "none"
  /\ pageLoaded
  /\ "performance" \in DOMAIN analysisData.metadata
  /\ analysisData.elements # <<>>
  /\ analysisData.componentPatterns # <<>>

\* C26: whenever main has launched the browser, the browser is closed
\* (analyzer.close has run) before the process ends, on the successful path
\* and on every failure path
BrowserClosedBeforeExit ==
  main.pc \in {"exited", "done"} /\ main.browser # "none" => main.browser = "closed"

\* C27: whatever passes have run, failing ones included, the responsive map
\* of the document is either empty or holds all three keys, written by one
\* analyzeResponsive call; a responsive pass that fails leaves the map as it
\* was, and analyzePage never changes it
ResponsiveAllOrNothing ==
  /\ [](\/ analysisData.responsive = <<>>
        \/ /\ Len(analysisData.responsive) = 3
           /\ ResponsiveKeys = {"mobile", "tablet", "desktop"}
           /\ analysisData.responsive = main.responsiveData)
  /\ [][analysisData'.responsive # analysisData.responsive =>
          /\ main.pc = "analyzeResponsive"
          /\ main.i = 3
          /\ pc = "returned"
          /\ error = "none"
          /\ pc' = "idle"]_vars

\* a responsive pass failed after an earlier one had stored its entry
ResponsiveAllOrNothingWitness ==
  /\ main.pc = "exited"
  /\ Len(main.responsiveData) = 2
  /\ Len(main.navigations) = 4
  /\ main.navigations[4].outcome # "loaded"
  /\ analysisData.responsive = <<>>

\* C28: the names of componentPatterns are pairwise distinct; the count of
\* every pattern is the length of its variations, which carry the indexes
\* 0..count-1 in match order; when two selectors of the catalog sanitize to
\* the same name, only the pattern of the later one remains
PatternNamesDistinct ==
  harness.patternRuns = 1 =>
    /\ \A i, j \in 1..Len(Patterns) : Patterns[i].name = Patterns[j].name => i = j
    /\ \A i \in 1..Len(Patterns) :
         LET elements == QuerySelectorAllMatching(Patterns[i].selector, kids, els)
         IN  /\ Patterns[i].count = Len(Patterns[i].variations)
             /\ Patterns[i].count = Len(elements)
             /\ \A v \in 1..Len(Patterns[i].variations) :
                  /\ Patterns[i].variations[v].index = v - 1
                  /\ Patterns[i].variations[v].classes =
                       IF els[elements[v]].className = EmptyStr THEN <<>>
                       ELSE Split(els[elements[v]].className, " ")
    /\ \A i \in 1..Len(Patterns) :
         \A s \in Range(ComponentSelectors) \ unsupported :
           ComponentName(s) = Patterns[i].name /\ MatchCount(s) >= 2 =>
             PositionInCatalog(s) <= PositionInCatalog(Patterns[i].selector)

\* two selectors of the same name both matched twice, with different elements
PatternNamesWitness ==
  /\ harness.patternRuns = 1
  /\ \E s, t \in Range(ComponentSelectors) \ unsupported :
       /\ PositionInCatalog(s) < PositionInCatalog(t)
       /\ ComponentName(s) = ComponentName(t)
       /\ MatchCount(s) >= 2
       /\ MatchCount(t) >= 2
       /\ \E i \in 1..Len(Patterns) : Patterns[i].selector = t
       /\ Len(Patterns) >= 2

\* C29: saveResults never changes analysisData; called without a filename
\* before any pass has set metadata.url, it fails with an error, writes no
\* file and creates no directory
SaveLeavesDocument ==
  [][harness'.saveRuns # harness.saveRuns =>
       /\ analysisData' = analysisData
       /\ (harness'.saveFilename = NullStr /\ analysisData.metadata = <<>>) =>
            /\ error' \notin {"none", "saveResults"}
            /\ main'.files = main.files
            /\ main'.dirs = main.dirs]_vars

\* saveResults() has failed on an analyzer without metadata.url, after a
\* call with a filename had written its file
SaveLeavesDocumentWitness ==
  /\ harness.saveRuns = 2
  /\ harness.saveFilename = NullStr
  /\ analysisData.metadata = <<>>
  /\ error = "Invalid URL"
  /\ Len(main.files) = 1
  /\ main.dirs = {}

\* the media documents of the collection with this filename
MediaNamed(filename) == {d \in 1..Len(blog.docs) : blog.docs[d].filename = filename}

\* C30: however often prepareBlogImages runs, it never creates a second media
\* document for a filename that already has one: for each listed image whose
\* file exists, a document is created only when none with that filename is
\* found, otherwise the id of the existing document is used for linking; a
\* failure on one image does not stop the remaining images from being
\* processed
NoSecondMediaDocument ==
  /\ [](blog.pc # "off" =>
          /\ \A i \in 1..Len(BlogImages) : Cardinality(MediaNamed(BlogImages[i].filename)) <= 1
          /\ \A u \in 1..Len(blog.uploadedMedia) :
               \E d \in MediaNamed(blog.uploadedMedia[u].key) :
                 blog.docs[d].id = blog.uploadedMedia[u].value)
  /\ [][blog.pc = "loop" /\ blog' # blog =>
          LET filename == BlogImages[blog.i].filename
          IN  /\ blog'.docs # blog.docs =>
                   /\ MediaNamed(filename) = {}
                   /\ filename \in blog.disk
                   /\ Len(blog'.docs) = Len(blog.docs) + 1
                   /\ blog'.docs[Len(blog'.docs)].filename = filename
                   /\ SubSeq(blog'.docs, 1, Len(blog.docs)) = blog.docs
              /\ blog'.docs = blog.docs /\ blog'.uploadedMedia # blog.uploadedMedia =>
                   \E d \in MediaNamed(filename) :
                     blog'.uploadedMedia[Len(blog'.uploadedMedia)] =
                       [key |-> filename, value |-> blog.docs[d].id]
              /\ IF blog.i < Len(BlogImages)
                 THEN blog'.pc = "loop" /\ blog'.i = blog.i + 1
                 ELSE blog'.pc = "link"]_vars

\* a second run, after the first image failed: the second was found in the
\* collection and the third was uploaded
NoSecondMediaDocumentWitness ==
  /\ blog.pc = "link"
  /\ blog.runs = 1
  /\ blog.failed = {BlogImages[1].filename}
  /\ Len(blog.uploadedMedia) = 2
  /\ Len(blog.docs) = 3
  /\ blog.docs[3].filename = BlogImages[3].filename

====
